---- MODULE Spec2Model ----
(***************************************************************************)
(* A model of the ha-ndarray array graph: owned storage (ArrayBase), views *)
(* (ArrayView), slices (ArraySlice) and deferred ops (ArrayOp), their      *)
(* constructors and transforms, the host read loops and ArrayBase::write.  *)
(* Storage is a heap of cells (one per Arc<RwLock<Vec<T>>>); a handle      *)
(* refers to its cell by index, and a view or slice embeds a copy of the   *)
(* handle of its source, as the Rust values do.                            *)
(***************************************************************************)
EXTENDS Integers, Sequences, FiniteSets, TLC

VARIABLES cells,    \* cells[c]: the Vec<T> behind one Arc<RwLock<Vec<T>>>
          written,  \* history: written[c] is the data last stored for allocation c
          nodes,    \* the array handles the program holds, in creation order
          last,     \* the last call: its name, inputs and outcome
          lock,     \* the RwLock of cell 1: the threads holding it as readers, as writers
          threads,  \* threads[t]: where thread t is in a read or write of cell 1,
                    \* or in a call of Context::select_device
          platform  \* the Context: its thresholds and the three DeviceLists

vars == <<cells, written, nodes, last, lock, threads, platform>>

----------------------------------------------------------------------------
(* Bounds of the model *)

MaxNodes == 3       \* handles alive at once in the storage-sharing runs
MaxShapeNodes == 2  \* handles alive at once in the shape-algebra runs
MaxDim == 3         \* largest dimension tried
MaxRank == 2        \* longest shape tried
MaxLen == 6         \* longest data vector handed to from_vec
MaxHeapDim == 2     \* largest dimension in the storage-sharing runs
MaxHeapLen == 4     \* longest data vector in the storage-sharing runs
MaxValue == 0       \* constant() fills with a value in 0..MaxValue
MaxTransRank == 3   \* longest shape in the transposition runs
MaxThreads == 3     \* threads in the concurrent runs
SharedLen == 2      \* elements of the vector the threads share
MaxStep == 2        \* largest step of an In bound in the slicing runs
MaxDevices == 3     \* devices in one DeviceList
MaxHint == 2        \* largest size hint and threshold of a Context
MaxCallers == 2     \* threads calling select_device on clones of one Context
CounterBits == 2    \* width of the AtomicUsize of a DeviceList
MaxBuffer == 4      \* elements of a buffer that is reduced
TypeBits == 8       \* width of the integer scalar types of the scalar runs
UsizeBits == 16     \* width given to usize where its arithmetic can wrap

----------------------------------------------------------------------------
(* Helpers on sequences *)

SeqsUpTo(S, n) == UNION {[1..k -> S] : k \in 0..n}

Min(a, b) == IF a < b THEN a ELSE b

RECURSIVE Product(_)
Product(s) == IF s = <<>> THEN 1 ELSE Head(s) * Product(Tail(s))

RECURSIVE Sum(_)
Sum(s) == IF s = <<>> THEN 0 ELSE Head(s) + Sum(Tail(s))

Iota(k) == [i \in 1..k |-> i]

Contains(s, x) == \E i \in 1..Len(s) : s[i] = x

\* Vec::insert(axis, v) with a 0-based axis
Insert(s, axis, v) == SubSeq(s, 1, axis) \o <<v>> \o SubSeq(s, axis + 1, Len(s))

----------------------------------------------------------------------------
(* NDArray::ndim / NDArray::size *)

ndim(n) == Len(n.shape)

size(n) == Product(n.shape)

\* strides that keep the product for a dimension of 1
strides_for_dense(shape, nd) ==
    LET n == Len(shape)
        zeros == [i \in 1..(nd - n) |-> 0]
        strides == [x \in 1..n |-> Product(SubSeq(shape, x + 1, n))]
    IN  zeros \o strides

(* strides_for in array.rs: ndim - len leading zeros, then per axis 0 for a
   dimension of 1 and otherwise the product of the dimensions to its right *)
strides_for(shape, nd) ==
    LET n == Len(shape)
        zeros == [i \in 1..(nd - n) |-> 0]
        strides == [x \in 1..n |->
                       IF shape[x] = 1 THEN 0
                       ELSE Product(SubSeq(shape, x + 1, n))]
    IN  zeros \o strides

(* strides_for in lib.rs, step by step: repeat(0).take(ndim - len) chained
   with, for x in 0..len, 0 for a dimension of 1 and otherwise the product of
   shape.iter().rev().take(len - 1 - x) *)
Rev(s) == [i \in 1..Len(s) |-> s[Len(s) + 1 - i]]

Take(s, k) == SubSeq(s, 1, Min(k, Len(s)))

lib_strides_for(shape, nd) ==
    LET zeros == [i \in 1..(nd - Len(shape)) |-> 0]
        strides == [x1 \in 1..Len(shape) |->
                       IF shape[x1] = 1 THEN 0
                       ELSE Product(Take(Rev(shape), Len(shape) - 1 - (x1 - 1)))]
    IN  zeros \o strides

----------------------------------------------------------------------------
(* Node values *)

\* origin is a history field: the allocation (from_vec / constant call) the
\* handle descends from through clone, reshape and expand_dim
Base(cell, shape, origin) ==
    [kind |-> "Base", cell |-> cell, shape |-> shape, origin |-> origin]

View(source, shape, strides) ==
    [kind |-> "View", source |-> source, shape |-> shape, strides |-> strides]

Slice(source, bounds, shape) ==
    [kind |-> "Slice", source |-> source, bounds |-> bounds, shape |-> shape]

Op(source, name, shape) ==
    [kind |-> "Op", source |-> source, op |-> name, shape |-> shape]

At(i) == [kind |-> "At", i |-> i]

In(start, stop, step) == [kind |-> "In", start |-> start, stop |-> stop, step |-> step]

Of(indices) == [kind |-> "Of", indices |-> indices]

\* the ArrayBase at the end of a node's source chain
RECURSIVE BaseOf(_)
BaseOf(n) == IF n.kind = "Base" THEN n ELSE BaseOf(n.source)

----------------------------------------------------------------------------
(* Buffers: Buffer::Host(Vec<T>) and Buffer::CL(ocl::Buffer<T>); a read that
   panics yields no buffer *)

Host(data) == [kind |-> "Host", data |-> data]

CL(data) == [kind |-> "CL", data |-> data]

Panicked == [kind |-> "Panic", data |-> <<>>]

\* buffer[offset] for every offset of offs (0-based), panicking out of range
Gather(kind, buffer, offs) ==
    IF \E o \in 1..Len(offs) : offs[o] < 0 \/ offs[o] >= Len(buffer)
    THEN Panicked
    ELSE [kind |-> kind, data |-> [o \in 1..Len(offs) |-> buffer[offs[o] + 1]]]

(* NDArrayRead for ArrayBase: a copy of the stored vector, on the host or
   written into a fresh device buffer *)
ReadBase(n, queue, store) ==
    IF queue = "CPU" THEN Host(store[n.cell]) ELSE CL(store[n.cell])

(* The host loop of NDArrayRead for ArrayView: coordinate from the canonical
   strides of the view's shape (0 where that stride is 0), source offset the
   sum of coordinate * view stride; the zips stop at the shortest vector *)
ViewCoord(shape, offset) ==
    LET strides == strides_for(shape, Len(shape))
    IN  [i \in 1..Len(shape) |->
            IF strides[i] = 0 THEN 0 ELSE (offset \div strides[i]) % shape[i]]

ViewOffset(v, offset) ==
    LET coord == ViewCoord(v.shape, offset)
        k == Min(Len(coord), Len(v.strides))
    IN  Sum([i \in 1..k |-> coord[i] * v.strides[i]])

ReadViewHost(v, buffer) ==
    Gather("Host", buffer, [o \in 1..size(v) |-> ViewOffset(v, o - 1)])

(* kernels::reorder / kernels::reorder_inplace: the device kernel, which the
   specification gives the same offset rule as the host loop *)
kernels_reorder(v, buffer) ==
    Gather("CL", buffer, [o \in 1..size(v) |-> ViewOffset(v, o - 1)])

(* The host loop of NDArrayRead for ArraySlice.  The coordinate divides by
   the canonical stride without a zero test; DivByZero tells when it would
   divide by zero or take a remainder by zero. *)
SliceDivByZero(s) ==
    LET strides == strides_for(s.shape, Len(s.shape))
    IN  \E i \in 1..Len(s.shape) : strides[i] = 0 \/ s.shape[i] = 0

SliceCoord(s, offset) ==
    LET strides == strides_for(s.shape, Len(s.shape))
    IN  [i \in 1..Len(s.shape) |-> (offset \div strides[i]) % s.shape[i]]

\* the walk over zip(source_strides, bounds) from position k with cursor x
\* (0-based) and offset_in so far; -1 when an index is out of range
RECURSIVE SliceWalk(_, _, _, _, _, _)
SliceWalk(bounds, source_strides, coord, k, x, offset_in) ==
    IF k > Min(Len(bounds), Len(source_strides)) THEN offset_in
    ELSE LET bound == bounds[k]
             stride == source_strides[k]
         IN  CASE bound.kind = "At" ->
                    SliceWalk(bounds, source_strides, coord, k + 1, x,
                              offset_in + bound.i * stride)
               [] bound.kind = "In" ->
                    IF x >= Len(coord) THEN -1
                    ELSE SliceWalk(bounds, source_strides, coord, k + 1, x + 1,
                                   offset_in + (bound.start + coord[x + 1] * bound.step) * stride)
               [] bound.kind = "Of" ->
                    IF x >= Len(coord) THEN -1
                    ELSE IF coord[x + 1] >= Len(bound.indices) THEN -1
                    ELSE SliceWalk(bounds, source_strides, coord, k + 1, x + 1,
                                   offset_in + bound.indices[coord[x + 1] + 1] * stride)

SliceOffset(s, offset) ==
    SliceWalk(s.bounds, strides_for(s.source.shape, Len(s.source.shape)),
              SliceCoord(s, offset), 1, 0, 0)

ReadSliceHost(s, buffer) ==
    IF size(s) > 0 /\ SliceDivByZero(s) THEN Panicked
    ELSE Gather("Host", buffer, [o \in 1..size(s) |-> SliceOffset(s, o - 1)])

(* kernels::slice: the device kernel, by the specification's rule: the
   coordinate is 0 where the output stride is 0 *)
kernels_slice(s, buffer) ==
    Gather("CL", buffer,
           [o \in 1..size(s) |->
               SliceWalk(s.bounds, strides_for(s.source.shape, Len(s.source.shape)),
                         ViewCoord(s.shape, o - 1), 1, 0, 0)])

(* NDArrayRead::read: a node reads its source on the same queue and stays on
   the side (host or device) its source came back on *)
RECURSIVE Read(_, _, _)
Read(n, queue, store) ==
    IF n.kind = "Base" THEN ReadBase(n, queue, store)
    ELSE LET source == Read(n.source, queue, store)
         IN  CASE source.kind = "Panic" -> Panicked
               [] n.kind = "View" /\ source.kind = "CL" ->
                    kernels_reorder(n, source.data)
               [] n.kind = "View" /\ source.kind = "Host" ->
                    ReadViewHost(n, source.data)
               [] n.kind = "Slice" /\ source.kind = "CL" ->
                    kernels_slice(n, source.data)
               [] n.kind = "Slice" /\ source.kind = "Host" ->
                    ReadSliceHost(n, source.data)

----------------------------------------------------------------------------
(* Results of the constructors and transforms: Ok(node), Err(Error::Bounds)
   or a panic (todo!(), a division by zero, an arithmetic overflow) *)

Ok(node) == [status |-> "Ok", node |-> node]

Bounds == [status |-> "Bounds"]

Panic == [status |-> "Panic"]

None == <<>>

Some(x) == <<x>>

\* a from_vec that accepts fewer data than the shape holds
ArrayBase_from_vec_at_most(shape, data, cell) ==
    IF Len(data) <= Product(shape) THEN Ok(Base(cell, shape, cell)) ELSE Bounds

(* ArrayBase::from_vec: Ok exactly when the data fill the shape.  The new
   handle owns a new cell. *)
ArrayBase_from_vec(shape, data, cell) ==
    IF Len(data) = Product(shape) THEN Ok(Base(cell, shape, cell)) ELSE Bounds

(* ArrayBase::expand_dim, ArrayOp::expand_dim, ArraySlice::expand_dim and the
   todo!() of ArrayView::expand_dim *)
ArrayBase_expand_dim(n, axis) ==
    IF axis > ndim(n) THEN Bounds
    ELSE Ok(Base(n.cell, Insert(n.shape, axis, 1), n.origin))

ArrayOp_expand_dim(n, axis) ==
    IF axis > ndim(n) THEN Bounds
    ELSE Ok(Op(n.source, n.op, Insert(n.shape, axis, 1)))

\* an expand_dim of a slice that keeps the strides of the slice's own shape
ArraySlice_expand_dim_old_strides(n, axis) ==
    IF axis > ndim(n) THEN Bounds
    ELSE Ok(View(n, Insert(n.shape, axis, 1), strides_for(n.shape, Len(n.shape))))

ArraySlice_expand_dim(n, axis) ==
    IF axis > ndim(n) THEN Bounds
    ELSE LET shape == Insert(n.shape, axis, 1)
         IN  Ok(View(n, shape, strides_for(shape, Len(shape))))

\* a reshape that tests the size and keeps the old shape
ArrayBase_reshape_same_shape(n, shape) ==
    IF Product(shape) = size(n) THEN Ok(Base(n.cell, n.shape, n.origin)) ELSE Bounds

\* a reshape that skips the size test
ArrayBase_reshape_unchecked(n, shape) == Ok(Base(n.cell, shape, n.origin))

(* ArrayBase::reshape: the same cell under a shape of the same size *)
ArrayBase_reshape(n, shape) ==
    IF Product(shape) = size(n) THEN Ok(Base(n.cell, shape, n.origin)) ELSE Bounds

(* The axes that transpose accepts: for Some(axes), a vector of length ndim
   that contains every x of 0..ndim-1; for None, the reversed axis order *)
Reversed(nd) == [i \in 1..nd |-> nd - i]

\* a validation that tests the length and the range of the axes only
ArrayBase_transpose_axes_in_range(n, axes) ==
    IF axes # None
    THEN IF Len(axes[1]) = ndim(n)
            /\ \A i \in 1..Len(axes[1]) : axes[1][i] < ndim(n)
         THEN Ok(axes[1]) ELSE Bounds
    ELSE Ok(Reversed(ndim(n)))

ArrayBase_transpose_axes(n, axes) ==
    IF axes # None
    THEN IF Len(axes[1]) = ndim(n) /\ \A x \in 0..(ndim(n) - 1) : Contains(axes[1], x)
         THEN Ok(axes[1]) ELSE Bounds
    ELSE Ok(Reversed(ndim(n)))

\* a transpose that permutes the shape and keeps the source's stride order
ArrayBase_transpose_unpermuted(n, axes) ==
    LET checked == ArrayBase_transpose_axes(n, axes)
    IN  IF checked.status # "Ok" THEN Bounds
        ELSE LET ax == checked.node
             IN  Ok(View(n, [i \in 1..Len(ax) |-> n.shape[ax[i] + 1]],
                            strides_for(n.shape, ndim(n))))

(* ArrayBase::transpose: a view over a clone of the handle, shape and source
   strides permuted by the axes *)
ArrayBase_transpose(n, axes) ==
    LET checked == ArrayBase_transpose_axes(n, axes)
    IN  IF checked.status # "Ok" THEN Bounds
        ELSE LET ax == checked.node
                 source_strides == strides_for(n.shape, ndim(n))
             IN  Ok(View(n, [i \in 1..Len(ax) |-> n.shape[ax[i] + 1]],
                            [i \in 1..Len(ax) |-> source_strides[ax[i] + 1]]))

(* ArrayView::transpose(source, axes), which ArrayOp::transpose calls *)
ArrayView_transpose_axes(source, axes) ==
    IF axes # None
    THEN IF Len(axes[1]) = ndim(source)
            /\ \A x \in 0..(ndim(source) - 1) : Contains(axes[1], x)
         THEN Ok(axes[1]) ELSE Bounds
    ELSE Ok(Reversed(ndim(source)))

ArrayView_transpose(source, axes) ==
    LET checked == ArrayView_transpose_axes(source, axes)
    IN  IF checked.status # "Ok" THEN Bounds
        ELSE LET ax == checked.node
                 source_strides == strides_for(source.shape, ndim(source))
             IN  Ok(View(source, [i \in 1..Len(ax) |-> source.shape[ax[i] + 1]],
                                 [i \in 1..Len(ax) |-> source_strides[ax[i] + 1]]))

\* a broadcast that takes no dimension of 1 for a wild card
ArrayView_broadcast_exact(source, shape) ==
    IF Len(shape) < ndim(source) THEN Bounds
    ELSE LET off == Len(shape) - ndim(source)
         IN  IF \A i \in 1..ndim(source) : source.shape[i] = shape[off + i]
             THEN Ok(View(source, shape, strides_for(source.shape, Len(shape))))
             ELSE Bounds

\* a broadcast that keeps the strides of the target shape
ArrayView_broadcast_dense(source, shape) ==
    IF Len(shape) < ndim(source) THEN Bounds
    ELSE LET off == Len(shape) - ndim(source)
         IN  IF \A i \in 1..ndim(source) :
                    source.shape[i] = shape[off + i] \/ source.shape[i] = 1
             THEN Ok(View(source, shape, strides_for(shape, Len(shape))))
             ELSE Bounds

(* ArrayView::broadcast *)
ArrayView_broadcast(source, shape) ==
    IF Len(shape) < ndim(source) THEN Bounds
    ELSE LET off == Len(shape) - ndim(source)
         IN  IF \A i \in 1..ndim(source) :
                    source.shape[i] = shape[off + i] \/ source.shape[i] = 1
             THEN Ok(View(source, shape, strides_for(source.shape, Len(shape))))
             ELSE Bounds

(* check_bound: an index must be < dim, an endpoint may equal dim *)
check_bound(i, dim, is_index) ==
    IF i < dim THEN TRUE
    ELSE IF i = dim /\ ~is_index THEN TRUE
    ELSE FALSE

(* AxisBound::size, in usize arithmetic: (stop - start) / step panics when
   step = 0 and, with overflow checks, when stop < start *)
AxisBound_size_panics(bound) ==
    bound.kind = "In" /\ (bound.step = 0 \/ bound.stop < bound.start)

AxisBound_size(bound) ==
    CASE bound.kind = "At" -> 0
      [] bound.kind = "In" -> (bound.stop - bound.start) \div bound.step
      [] bound.kind = "Of" -> Len(bound.indices)

\* usize arithmetic without overflow checks wraps modulo 2^bits
Usize == 2 ^ UsizeBits

\* AxisBound::size in a build without overflow checks: stop - start wraps,
\* and only the division by a step of 0 panics
AxisBound_size_wrapping(bound) ==
    CASE bound.kind = "At" -> 0
      [] bound.kind = "In" -> ((bound.stop - bound.start) % Usize) \div bound.step
      [] bound.kind = "Of" -> Len(bound.indices)

\* Iterator::filter on a sequence
RECURSIVE FilterPositive(_)
FilterPositive(s) ==
    IF s = <<>> THEN <<>>
    ELSE IF Head(s) > 0 THEN <<Head(s)>> \o FilterPositive(Tail(s))
    ELSE FilterPositive(Tail(s))

BoundValid(bound, dim) ==
    CASE bound.kind = "At" -> check_bound(bound.i, dim, TRUE)
      [] bound.kind = "In" ->
            check_bound(bound.start, dim, FALSE) /\ check_bound(bound.stop, dim, FALSE)
      [] bound.kind = "Of" ->
            \A k \in 1..Len(bound.indices) : check_bound(bound.indices[k], dim, TRUE)

(* ArraySlice::new: at most ndim bounds, each checked against its dimension,
   padded with In(0, dim, 1) for the remaining axes; the shape keeps the
   sizes that are > 0 *)
ArraySlice_new(source, bounds) ==
    IF Len(bounds) > ndim(source) THEN Bounds
    ELSE IF \E k \in 1..Len(bounds) : ~BoundValid(bounds[k], source.shape[k]) THEN Bounds
    ELSE LET tail_bounds == [k \in 1..(ndim(source) - Len(bounds)) |->
                                In(0, source.shape[Len(bounds) + k], 1)]
             all == bounds \o tail_bounds
         IN  IF \E k \in 1..Len(all) : AxisBound_size_panics(all[k]) THEN Panic
             ELSE Ok(Slice(source, all,
                           FilterPositive([k \in 1..Len(all) |-> AxisBound_size(all[k])])))

(* ArraySlice::new in a build without overflow checks *)
ArraySlice_new_wrapping(source, bounds) ==
    IF Len(bounds) > ndim(source) THEN Bounds
    ELSE IF \E k \in 1..Len(bounds) : ~BoundValid(bounds[k], source.shape[k]) THEN Bounds
    ELSE LET tail_bounds == [k \in 1..(ndim(source) - Len(bounds)) |->
                                In(0, source.shape[Len(bounds) + k], 1)]
             all == bounds \o tail_bounds
         IN  IF \E k \in 1..Len(all) : all[k].kind = "In" /\ all[k].step = 0 THEN Panic
             ELSE Ok(Slice(source, all,
                           FilterPositive([k \in 1..Len(all) |->
                                              AxisBound_size_wrapping(all[k])])))

\* the outcomes of ArraySlice::new over the builds: with overflow checks (a
\* debug build) and without (a release build)
ArraySlice_new_outcomes(source, bounds) ==
    {ArraySlice_new(source, bounds), ArraySlice_new_wrapping(source, bounds)}

----------------------------------------------------------------------------
(* Operations on two arrays and reductions along an axis: the shape checks
   made when the ArrayOp is constructed *)

DualNames == {"add", "sub", "mul", "div", "rem"}

(* check_shape *)
check_shape(left, right) == IF left = right THEN Ok(left) ELSE Bounds

(* ArrayDual::add, ::sub, ...: the operation over its two operands.  The ops
   module gives no reason for it to fail once the shapes are equal. *)
ArrayDual_new(left, right, name) == Ok([op |-> name, left |-> left, right |-> right])

\* ArrayOp::new over a dual operation
DualOp(op, shape) ==
    [kind |-> "Op", source |-> op.left, right |-> op.right, op |-> op.op,
     shape |-> shape]

(* NDArrayMath::add, div, mul, rem, sub *)
NDArrayMath_dual(left, right, name) ==
    LET shape == check_shape(left.shape, right.shape)
    IN  IF shape.status # "Ok" THEN Bounds
        ELSE LET op == ArrayDual_new(left, right, name)
             IN  IF op.status # "Ok" THEN op ELSE Ok(DualOp(op.node, shape.node))

(* impl_op!: std::ops::Add, Div, Mul, Rem, Sub, with
   assert_eq!(shape, rhs.shape()) *)
impl_op(left, right, name) ==
    IF left.shape # right.shape THEN Panic
    ELSE Ok(DualOp([op |-> name, left |-> left, right |-> right], left.shape))

(* MatMul::new: the operation over its two operands.  The ops module gives
   no reason for it to fail once matmul has checked the shapes. *)
MatMul_new(left, right) == Ok([op |-> "matmul", left |-> left, right |-> right])

\* a matmul that does not compare the inner dimensions
MatrixMath_matmul_inner_unchecked(left, right) ==
    IF ndim(left) < 2 \/ ndim(right) < 2 THEN Bounds
    ELSE LET nd == ndim(left)
             prefix == SubSeq(left.shape, 1, nd - 2)
         IN  IF ndim(right) # nd THEN Bounds
             ELSE IF SubSeq(right.shape, 1, nd - 2) # prefix THEN Bounds
             ELSE Ok(DualOp(MatMul_new(left, right).node,
                            prefix \o <<left.shape[nd - 1], right.shape[nd]>>))

(* MatrixMath::matmul *)
MatrixMath_matmul(left, right) ==
    IF ndim(left) < 2 \/ ndim(right) < 2 THEN Bounds
    ELSE LET nd == ndim(left)
             prefix == SubSeq(left.shape, 1, nd - 2)
         IN  IF ndim(right) # nd THEN Bounds
             ELSE IF SubSeq(right.shape, 1, nd - 2) # prefix THEN Bounds
             ELSE LET a == left.shape[nd - 1]
                      b == left.shape[nd]
                      c == right.shape[nd]
                  IN  IF right.shape[nd - 1] # b THEN Bounds
                      ELSE LET op == MatMul_new(left, right)
                           IN  IF op.status # "Ok" THEN op
                               ELSE Ok(DualOp(op.node, prefix \o <<a, c>>))

ReduceNames == {"sum", "max", "min", "product"}

\* a reduce_axis that removes the only axis of a vector as well
reduce_axis_always_removes(source, axis) ==
    IF axis >= ndim(source) THEN Bounds
    ELSE Ok(SubSeq(source.shape, 1, axis)
                \o SubSeq(source.shape, axis + 2, ndim(source)))

(* reduce_axis: take(axis) then skip(axis + 1) of the source shape *)
reduce_axis(source, axis) ==
    IF axis >= ndim(source) THEN Bounds
    ELSE IF ndim(source) = 1 THEN Ok(<<1>>)
    ELSE Ok(SubSeq(source.shape, 1, axis)
                \o SubSeq(source.shape, axis + 2, ndim(source)))

(* The shape computed inside NDArrayReduce::sum_axis: vec![0; ndim - 1], then
   shape[..axis] and shape[axis..] copied from the source *)
sum_axis_shape(source, axis) ==
    IF axis >= ndim(source) THEN Bounds
    ELSE IF ndim(source) = 1 THEN Ok(<<1>>)
    ELSE LET zeros == [k \in 1..(ndim(source) - 1) |-> 0]
         IN  Ok([k \in 1..Len(zeros) |->
                    IF k <= axis THEN source.shape[k] ELSE source.shape[k + 1]])

(* NDArrayReduce::sum_axis, max_axis, min_axis, product_axis *)
NDArrayReduce_axis(source, name, axis) ==
    LET shape == IF name = "sum" THEN sum_axis_shape(source, axis)
                 ELSE reduce_axis(source, axis)
    IN  IF shape.status # "Ok" THEN Bounds
        ELSE Ok([kind |-> "Op", source |-> source, op |-> name, axis |-> axis,
                 shape |-> shape.node])

----------------------------------------------------------------------------
(* Scalars: the integer types of c_type!, at one width.  "u" is the unsigned
   type, "i" the signed one, which is the Neg type of both. *)

ScalarTypes == {"u", "i"}

TypeMin(type) == IF type = "u" THEN 0 ELSE -(2 ^ (TypeBits - 1))

TypeMax(type) == IF type = "u" THEN 2 ^ TypeBits - 1 ELSE 2 ^ (TypeBits - 1) - 1

Values(type) == TypeMin(type)..TypeMax(type)

\* `as`: the value with the same bits in the signed type
AsSigned(x) ==
    LET bits == x % (2 ^ TypeBits)
    IN  IF bits > TypeMax("i") THEN bits - 2 ^ TypeBits ELSE bits

(* CDatatype::neg of c_type!: self as Neg when self >= zero, -(self as Neg)
   otherwise.  The negation of the minimum overflows: a panic with overflow
   checks, the minimum again without. *)
CDatatype_neg(type, x) ==
    IF x >= 0 THEN {[status |-> "Ok", value |-> AsSigned(x)]}
    ELSE IF AsSigned(x) = TypeMin("i")
         THEN {Panic, [status |-> "Ok", value |-> AsSigned(-AsSigned(x))]}
         ELSE {[status |-> "Ok", value |-> -AsSigned(x)]}

(* BufferReduce for Vec<T>: par_iter().copied().reduce(identity, op).  The
   pool folds a chunk from identity() with op, or splits it in the middle and
   combines the results of the halves with op, as it chooses.  An arithmetic
   overflow in Add::add or Mul::mul panics in a build with overflow checks and
   wraps in one without. *)
ReduceFolds == {"sum", "product", "max", "min"}

Fit(type, raw, checked) ==
    IF raw \in Values(type) THEN [status |-> "Ok", value |-> raw]
    ELSE IF checked THEN Panic
    ELSE [status |-> "Ok",
          value |-> IF type = "u" THEN raw % (2 ^ TypeBits) ELSE AsSigned(raw)]

identity(type, name) ==
    CASE name = "sum" -> 0
      [] name = "product" -> 1
      [] name = "max" -> TypeMin(type)
      [] name = "min" -> TypeMax(type)

\* op(l, r) on two results, either of which may be a panic
collect(type, name, l, r, checked) ==
    IF l.status # "Ok" \/ r.status # "Ok" THEN Panic
    ELSE CASE name = "sum" -> Fit(type, l.value + r.value, checked)
           [] name = "product" -> Fit(type, l.value * r.value, checked)
           [] name = "max" -> IF r.value > l.value THEN r ELSE l
           [] name = "min" -> IF r.value < l.value THEN r ELSE l

\* the fold of one chunk, from the left
RECURSIVE fold(_, _, _, _, _)
fold(type, name, acc, data, checked) ==
    IF data = <<>> THEN acc
    ELSE fold(type, name,
              collect(type, name, acc, [status |-> "Ok", value |-> Head(data)], checked),
              Tail(data), checked)

\* a reduction that always folds the whole buffer as one chunk
par_reduce_one_chunk(type, name, data, checked) ==
    {fold(type, name, [status |-> "Ok", value |-> identity(type, name)], data, checked)}

\* the results the reduction can return, over the ways the pool splits
RECURSIVE par_reduce(_, _, _, _)
par_reduce(type, name, data, checked) ==
    {fold(type, name, [status |-> "Ok", value |-> identity(type, name)], data, checked)}
        \cup IF Len(data) < 2 THEN {}
             ELSE LET mid == Len(data) \div 2
                  IN  {collect(type, name, l, r, checked) :
                          l \in par_reduce(type, name, SubSeq(data, 1, mid), checked),
                          r \in par_reduce(type, name,
                                           SubSeq(data, mid + 1, Len(data)), checked)}

\* all and any: par_iter().copied().all(|n| n != zero), .any(|n| n != zero)
par_all(data) == \A k \in 1..Len(data) : data[k] # 0

par_any(data) == \E k \in 1..Len(data) : data[k] # 0

----------------------------------------------------------------------------
(* The calls, as actions.  A call that returns Ok adds the node it returns
   to the handles the program holds. *)

Keep(result) ==
    IF result.status = "Ok" THEN nodes' = Append(nodes, result.node)
    ELSE UNCHANGED nodes

from_vec(shape, data) ==
    LET result == ArrayBase_from_vec(shape, data, Len(cells) + 1)
    IN  /\ Keep(result)
        /\ IF result.status = "Ok"
           THEN cells' = Append(cells, data) /\ written' = Append(written, data)
           ELSE UNCHANGED <<cells, written>>
        /\ last' = [op |-> "from_vec", shape |-> shape, len |-> Len(data),
                    status |-> result.status]

(* ArrayBase::constant: product(shape) copies of the value *)
constant(shape, value) ==
    LET data == [i \in 1..Product(shape) |-> value]
    IN  /\ nodes' = Append(nodes, Base(Len(cells) + 1, shape, Len(cells) + 1))
        /\ cells' = Append(cells, data)
        /\ written' = Append(written, data)
        /\ last' = [op |-> "constant", shape |-> shape, status |-> "Ok"]

(* #[derive(Clone)]: the clone of a handle shares its Arc *)
clone(i) ==
    /\ nodes' = Append(nodes, nodes[i])
    /\ last' = [op |-> "clone", src |-> i, status |-> "Ok"]
    /\ UNCHANGED <<cells, written>>

expand_dim(i, axis) ==
    LET n == nodes[i]
        result == CASE n.kind = "Base" -> ArrayBase_expand_dim(n, axis)
                    [] n.kind = "Op" -> ArrayOp_expand_dim(n, axis)
                    [] n.kind = "Slice" -> ArraySlice_expand_dim(n, axis)
                    [] n.kind = "View" -> Panic
    IN  /\ Keep(result)
        /\ last' = [op |-> "expand_dim", src |-> i, axis |-> axis,
                    status |-> result.status]
        /\ UNCHANGED <<cells, written>>

\* a reshape that copies the data into a cell of its own
reshape_copy(i, shape) ==
    LET n == nodes[i]
        result == IF n.kind = "Base" THEN ArrayBase_reshape(n, shape) ELSE Panic
    IN  /\ last' = [op |-> "reshape", src |-> i, shape |-> shape,
                    status |-> result.status]
        /\ IF result.status = "Ok"
           THEN /\ nodes' = Append(nodes, Base(Len(cells) + 1, shape, n.origin))
                /\ cells' = Append(cells, cells[n.cell])
                /\ written' = Append(written, cells[n.cell])
           ELSE UNCHANGED <<nodes, cells, written>>

reshape(i, shape) ==
    LET n == nodes[i]
        result == IF n.kind = "Base" THEN ArrayBase_reshape(n, shape) ELSE Panic
    IN  /\ Keep(result)
        /\ last' = [op |-> "reshape", src |-> i, shape |-> shape,
                    status |-> result.status]
        /\ UNCHANGED <<cells, written>>

transpose(i, axes) ==
    LET n == nodes[i]
        result == CASE n.kind = "Base" -> ArrayBase_transpose(n, axes)
                    [] n.kind = "Op" -> ArrayView_transpose(n, axes)
                    [] n.kind \in {"Slice", "View"} -> Panic
    IN  /\ Keep(result)
        /\ last' = [op |-> "transpose", src |-> i, axes |-> axes,
                    status |-> result.status]
        /\ UNCHANGED <<cells, written>>

slice(i, bounds) ==
    LET n == nodes[i]
    IN  \E result \in IF n.kind \in {"Base", "Op"}
                       THEN ArraySlice_new_outcomes(n, bounds) ELSE {Panic} :
            /\ Keep(result)
            /\ last' = [op |-> "slice", src |-> i, bounds |-> bounds,
                        status |-> result.status]
            /\ UNCHANGED <<cells, written>>

broadcast(i, shape) ==
    LET n == nodes[i]
        result == IF n.kind \in {"Base", "Op"} THEN ArrayView_broadcast(n, shape)
                  ELSE Panic
    IN  /\ Keep(result)
        /\ last' = [op |-> "broadcast", src |-> i, shape |-> shape,
                    status |-> result.status]
        /\ UNCHANGED <<cells, written>>

(* impl Neg: an ArrayOp of the operand's shape over the operand *)
neg(i) ==
    /\ nodes' = Append(nodes, Op(nodes[i], "neg", nodes[i].shape))
    /\ last' = [op |-> "neg", src |-> i, status |-> "Ok"]
    /\ UNCHANGED <<cells, written>>

(* a.add(b), a.sub(b), ...: the NDArrayMath methods *)
math_dual(i, j, name) ==
    LET result == NDArrayMath_dual(nodes[i], nodes[j], name)
    IN  /\ Keep(result)
        /\ last' = [op |-> "math", name |-> name, src |-> i, rhs |-> j,
                    status |-> result.status]
        /\ UNCHANGED <<cells, written>>

(* a + b, a - b, ...: the overloaded operators *)
operator_dual(i, j, name) ==
    LET result == impl_op(nodes[i], nodes[j], name)
    IN  /\ Keep(result)
        /\ last' = [op |-> "operator", name |-> name, src |-> i, rhs |-> j,
                    status |-> result.status]
        /\ UNCHANGED <<cells, written>>

(* a.matmul(b) *)
matmul(i, j) ==
    LET result == MatrixMath_matmul(nodes[i], nodes[j])
    IN  /\ Keep(result)
        /\ last' = [op |-> "matmul", src |-> i, rhs |-> j, status |-> result.status]
        /\ UNCHANGED <<cells, written>>

(* a.sum_axis(axis), a.max_axis(axis), a.min_axis(axis), a.product_axis(axis) *)
reduce(i, name, axis) ==
    LET result == NDArrayReduce_axis(nodes[i], name, axis)
    IN  /\ Keep(result)
        /\ last' = [op |-> "reduce", name |-> name, src |-> i, axis |-> axis,
                    status |-> result.status]
        /\ UNCHANGED <<cells, written>>

(* x.neg() on a scalar *)
neg_scalar(type, x) ==
    /\ \E result \in CDatatype_neg(type, x) :
          last' = [op |-> "neg_scalar", type |-> type, x |-> x, result |-> result,
                   status |-> result.status]
    /\ UNCHANGED <<cells, written, nodes>>

(* buffer.sum(&queue), .product, .max, .min on a host buffer, in a build
   with (checked) or without overflow checks *)
reduce_host(type, name, data, checked) ==
    /\ \E result \in par_reduce(type, name, data, checked) :
          last' = [op |-> "reduce_host", type |-> type, name |-> name,
                   data |-> data, checked |-> checked, result |-> result,
                   status |-> result.status]
    /\ UNCHANGED <<cells, written, nodes>>

(* buffer.all(&queue), buffer.any(&queue) on a host buffer *)
test_host(type, name, data) ==
    /\ last' = [op |-> "test_host", type |-> type, name |-> name, data |-> data,
                result |-> IF name = "all" THEN par_all(data) ELSE par_any(data),
                status |-> "Ok"]
    /\ UNCHANGED <<cells, written, nodes>>

\* the record of a write call
WriteCall(d, s, queue, read, status) ==
    [op |-> "write", dst |-> d, src |-> s, queue |-> queue, read |-> read,
     old |-> cells[nodes[d].cell], status |-> status]

(* The two arms of write's match on the buffer the source came back as:
   Buffer::Host is copied with copy_from_slice, which panics on a length
   mismatch; Buffer::CL is read into the vector, which fails on one *)
Store(d, s, queue, buffer) ==
    LET dst == nodes[d]
    IN  IF buffer.kind # "Panic" /\ Len(buffer.data) = Len(cells[dst.cell])
        THEN /\ cells' = [cells EXCEPT ![dst.cell] = buffer.data]
             /\ written' = [written EXCEPT ![dst.origin] = buffer.data]
             /\ last' = WriteCall(d, s, queue, TRUE, "Ok")
        ELSE /\ UNCHANGED <<cells, written>>
             /\ last' = WriteCall(d, s, queue, TRUE,
                                  IF buffer.kind = "CL" THEN "Device" ELSE "Panic")

\* a write that skips the shape test
write_unchecked(d, s, queue) ==
    /\ nodes[d].kind = "Base"
    /\ nodes[s].kind # "Op"
    /\ UNCHANGED nodes
    /\ Store(d, s, queue, Read(nodes[s], queue, cells))

\* a write whose Buffer::CL arm copies nothing back
write_host_only(d, s, queue) ==
    /\ nodes[d].kind = "Base"
    /\ nodes[s].kind # "Op"
    /\ UNCHANGED nodes
    /\ IF nodes[d].shape = nodes[s].shape
       THEN IF queue = "CL"
            THEN /\ UNCHANGED <<cells, written>>
                 /\ last' = WriteCall(d, s, queue, TRUE, "Ok")
            ELSE Store(d, s, queue, Read(nodes[s], queue, cells))
       ELSE /\ UNCHANGED <<cells, written>>
            /\ last' = WriteCall(d, s, queue, FALSE, "Bounds")

(* NDArrayWrite for ArrayBase.  With equal shapes the source is read on the
   queue the context picks and the buffer is stored; otherwise Error::Bounds
   and nothing is read. *)
write(d, s, queue) ==
    /\ nodes[d].kind = "Base"
    /\ nodes[s].kind # "Op"
    /\ UNCHANGED nodes
    /\ IF nodes[d].shape = nodes[s].shape
       THEN Store(d, s, queue, Read(nodes[s], queue, cells))
       ELSE /\ UNCHANGED <<cells, written>>
            /\ last' = WriteCall(d, s, queue, FALSE, "Bounds")

----------------------------------------------------------------------------
(* Inputs *)

Queues == {"CPU", "CL"}

Shapes == SeqsUpTo(0..MaxDim, MaxRank)

HeapShapes == SeqsUpTo(1..MaxHeapDim, MaxRank) \ {<<>>}

AxesInputs == {None} \cup {Some(a) : a \in SeqsUpTo(0..MaxRank, MaxRank + 1)}

HeapAxes == {None} \cup {Some(a) : a \in [1..MaxRank -> 0..(MaxRank - 1)]}

HeapBounds == SeqsUpTo({At(0), In(0, MaxHeapDim, 1)}, 1)

Room(cap) == Len(nodes) < cap

Free == [readers |-> {}, writers |-> {}]

\* Platform::default() without the opencl feature: no device list
NoPlatform == [devices |-> <<>>]

\* the calls of one thread run one after another: no lock is held between them
Sequential == UNCHANGED <<lock, threads, platform>>

Init ==
    /\ cells = <<>>
    /\ written = <<>>
    /\ nodes = <<>>
    /\ last = [op |-> "init", status |-> "Ok"]
    /\ lock = Free
    /\ threads = <<>>
    /\ platform = NoPlatform

(* Storage sharing: handles, views and slices over shared cells, and writes *)
Next ==
    \/ /\ Room(MaxNodes) /\ Sequential
       /\ \E shape \in HeapShapes, k \in 0..MaxHeapLen : from_vec(shape, Iota(k))
    \/ /\ Room(MaxNodes) /\ Sequential
       /\ \E shape \in HeapShapes, value \in 0..MaxValue : constant(shape, value)
    \/ /\ Room(MaxNodes) /\ Sequential
       /\ \E i \in 1..Len(nodes) : clone(i)
    \/ /\ Room(MaxNodes) /\ Sequential
       /\ \E i \in 1..Len(nodes), shape \in HeapShapes : reshape(i, shape)
    \/ /\ Room(MaxNodes) /\ Sequential
       /\ \E i \in 1..Len(nodes), axis \in 0..MaxRank : expand_dim(i, axis)
    \/ /\ Room(MaxNodes) /\ Sequential
       /\ \E i \in 1..Len(nodes), axes \in HeapAxes : transpose(i, axes)
    \/ /\ Room(MaxNodes) /\ Sequential
       /\ \E i \in 1..Len(nodes), bounds \in HeapBounds : slice(i, bounds)
    \/ /\ Sequential
       /\ \E d \in 1..Len(nodes), s \in 1..Len(nodes), queue \in Queues :
             write(d, s, queue)

Spec == Init /\ [][Next]_vars

(* Shape algebra: the constructors and transforms on every shape, the empty
   shape and shapes with a dimension of 0 included *)
ShapeBounds ==
    SeqsUpTo({At(0), At(1), In(0, 0, 1), In(0, 2, 1), In(1, 1, 1), In(0, 1, 0),
              In(2, 1, 1), Of(<<>>), Of(<<0, 0>>)}, MaxRank)

NextShape ==
    \/ /\ Room(MaxShapeNodes) /\ Sequential
       /\ \E shape \in Shapes, k \in 0..MaxLen : from_vec(shape, Iota(k))
    \/ /\ Room(MaxShapeNodes) /\ Sequential
       /\ \E shape \in Shapes, value \in 0..MaxValue : constant(shape, value)
    \/ /\ Room(MaxShapeNodes) /\ Sequential
       /\ \E i \in 1..Len(nodes), shape \in Shapes : reshape(i, shape)
    \/ /\ Room(MaxShapeNodes) /\ Sequential
       /\ \E i \in 1..Len(nodes), axis \in 0..(MaxRank + 1) : expand_dim(i, axis)
    \/ /\ Room(MaxShapeNodes) /\ Sequential
       /\ \E i \in 1..Len(nodes), axes \in AxesInputs : transpose(i, axes)
    \/ /\ Room(MaxShapeNodes) /\ Sequential
       /\ \E i \in 1..Len(nodes), bounds \in ShapeBounds : slice(i, bounds)
    \/ /\ Room(MaxShapeNodes) /\ Sequential
       /\ \E i \in 1..Len(nodes), shape \in Shapes : broadcast(i, shape)

SpecShape == Init /\ [][NextShape]_vars

(* Transposition: one array of a valid shape, its negation, and transposes of
   them under every axes vector *)
TransShapes == SeqsUpTo(1..MaxDim, MaxTransRank) \ {<<>>}

TransAxes == {None} \cup {Some(a) : a \in SeqsUpTo(0..MaxTransRank, MaxTransRank)}

NextTranspose ==
    \/ /\ Room(1) /\ Sequential
       /\ \E shape \in TransShapes : from_vec(shape, Iota(Product(shape)))
    \/ /\ Room(MaxNodes) /\ Sequential
       /\ \E i \in 1..Len(nodes) : nodes[i].kind = "Base" /\ neg(i)
    \/ /\ Room(MaxNodes) /\ Sequential
       /\ \E i \in 1..Len(nodes), axes \in TransAxes : transpose(i, axes)

SpecTranspose == Init /\ [][NextTranspose]_vars

(* Array mathematics: two arrays of valid shapes and one operation on them *)
NextMath ==
    \/ /\ Room(2) /\ Sequential
       /\ \E shape \in TransShapes : from_vec(shape, Iota(Product(shape)))
    \/ /\ Len(nodes) = 2 /\ last.op = "from_vec" /\ Sequential
       /\ \E i, j \in 1..2, name \in DualNames : math_dual(i, j, name)
    \/ /\ Len(nodes) = 2 /\ last.op = "from_vec" /\ Sequential
       /\ \E i, j \in 1..2, name \in DualNames : operator_dual(i, j, name)
    \/ /\ Len(nodes) = 2 /\ last.op = "from_vec" /\ Sequential
       /\ \E i, j \in 1..2 : matmul(i, j)
    \/ /\ Len(nodes) = 2 /\ last.op = "from_vec" /\ Sequential
       /\ \E i \in 1..2, name \in ReduceNames, axis \in 0..MaxTransRank :
             reduce(i, name, axis)

SpecMath == Init /\ [][NextMath]_vars

(* Scalars: one call of a method of CDatatype on any value of the integer
   types, or of a reduction of a host buffer of values near the bounds and
   near 0 *)
BufferValues(type) == {TypeMin(type), -1, 0, 1, 2, TypeMax(type)} \cap Values(type)

NextScalar ==
    \/ /\ last.op = "init" /\ Sequential
       /\ \E type \in ScalarTypes : \E x \in Values(type) : neg_scalar(type, x)
    \/ /\ last.op = "init" /\ Sequential
       /\ \E type \in ScalarTypes, name \in ReduceFolds, checked \in BOOLEAN :
             \E data \in SeqsUpTo(BufferValues(type), MaxBuffer) :
                 reduce_host(type, name, data, checked)
    \/ /\ last.op = "init" /\ Sequential
       /\ \E type \in ScalarTypes, name \in {"all", "any"} :
             \E data \in SeqsUpTo(BufferValues(type), MaxBuffer) :
                 test_host(type, name, data)

SpecScalar == Init /\ [][NextScalar]_vars

----------------------------------------------------------------------------
(* Device program source.  A program is the text the template expands to,
   kept as what a compiler reads of it: the inline helper functions it
   defines, the kernel's name and parameter types, and the function the
   kernel body calls. *)

CTypes == {"f32", "f64", "u8", "u16", "u32", "u64", "i8", "i16", "i32", "i64"}

\* c_type!: CDatatype::TYPE_STR
TYPE_STR(type) ==
    CASE type = "f32" -> "float"
      [] type = "f64" -> "double"
      [] type = "u8" -> "uchar"
      [] type = "u16" -> "ushort"
      [] type = "u32" -> "uint"
      [] type = "u64" -> "ulong"
      [] type = "i8" -> "char"
      [] type = "i16" -> "short"
      [] type = "i32" -> "int"
      [] type = "i64" -> "long"

Helper(name, ret, left, right) ==
    [name |-> name, ret |-> ret, left |-> left, right |-> right]

(* cl_programs::elementwise_dual::<LT, RT>(op, context) *)
elementwise_dual_source(LT, RT, op) ==
    LET ltype == TYPE_STR(LT)
        rtype == TYPE_STR(RT)
    IN  [helpers |-> {Helper("add", ltype, ltype, rtype),
                      Helper("log_", ltype, ltype, "double"),
                      Helper("div", ltype, ltype, rtype),
                      Helper("mul", ltype, ltype, rtype),
                      Helper("pow_", ltype, ltype, "double"),
                      Helper("sub", ltype, ltype, rtype)},
         kernel |-> "elementwise_dual",
         params |-> <<ltype, rtype, ltype>>,
         call |-> op]

(* cl_programs::elementwise_scalar::<IT, OT>(op, context) *)
elementwise_scalar_source(IT, OT, op) ==
    LET itype == TYPE_STR(IT)
        otype == TYPE_STR(OT)
    IN  [helpers |-> {Helper("add", otype, otype, itype),
                      Helper("div", otype, otype, itype),
                      Helper("mul", otype, otype, itype),
                      Helper("pow_", otype, otype, "double"),
                      Helper("sub", otype, otype, itype)},
         kernel |-> "elementwise_scalar",
         params |-> <<otype, itype, otype>>,
         call |-> op]

(* The operation symbol that the constructors of ArrayDual, ArrayDualFloat,
   ArrayScalar and ArrayScalarFloat hand to the template.  The ops module is
   not in the source; the symbols are the specification's (add, sub, ...)
   and, for log and pow, the names the templates give their helpers.  For
   rem the specification names none: the operation's own name or the device
   language's fmod. *)
OpSymbols(op) ==
    CASE op = "rem" -> {"rem", "fmod"}
      [] op = "log" -> {"log_"}
      [] op = "pow" -> {"pow_"}
      [] OTHER -> {op}

FloatNames == {"log", "pow"}

(* ArrayDual::add, sub, mul, div, rem over two arrays of one type, and
   ArrayDualFloat::log, pow over an array and an array of f64 *)
elementwise_dual(T, op) ==
    /\ \E symbol \in OpSymbols(op) :
          last' = [op |-> "elementwise_dual", type |-> T, name |-> op,
                   program |-> elementwise_dual_source(
                                   T, IF op \in FloatNames THEN "f64" ELSE T, symbol),
                   status |-> "Ok"]
    /\ UNCHANGED <<cells, written, nodes>>

(* ArrayScalar::add, sub, mul, div, rem over an array and a scalar of its
   type, and ArrayScalarFloat::log, pow over an array and an f64 *)
elementwise_scalar(T, op) ==
    /\ \E symbol \in OpSymbols(op) :
          last' = [op |-> "elementwise_scalar", type |-> T, name |-> op,
                   program |-> elementwise_scalar_source(
                                   IF op \in FloatNames THEN "f64" ELSE T, T, symbol),
                   status |-> "Ok"]
    /\ UNCHANGED <<cells, written, nodes>>

NextPrograms ==
    \/ /\ Sequential
       /\ \E T \in CTypes, op \in DualNames \cup FloatNames : elementwise_dual(T, op)
    \/ /\ Sequential
       /\ \E T \in CTypes, op \in DualNames \cup FloatNames : elementwise_scalar(T, op)

SpecPrograms == Init /\ [][NextPrograms]_vars

(* Slicing: one array of a valid shape holding 1, 2, ... and one slice of it
   under every list of bounds *)
SliceShapes == SeqsUpTo(1..MaxDim, MaxRank) \ {<<>>}

SliceAxisBounds ==
    {At(i) : i \in 0..MaxDim}
        \cup {In(start, stop, step) : start \in 0..MaxDim, stop \in 0..MaxDim,
                                      step \in 0..MaxStep}
        \cup {Of(indices) : indices \in SeqsUpTo(0..1, 2) \cup {<<MaxDim>>}}

SliceBounds == SeqsUpTo(SliceAxisBounds, MaxRank)

NextSlice ==
    \/ /\ Room(1) /\ Sequential
       /\ \E shape \in SliceShapes : from_vec(shape, Iota(Product(shape)))
    \/ /\ Room(MaxShapeNodes) /\ Sequential
       /\ last.op = "from_vec"      \* one call of slice on the array just built
       /\ \E i \in 1..Len(nodes), bounds \in SliceBounds : slice(i, bounds)

SpecSlice == Init /\ [][NextSlice]_vars

(* Views: one array of a valid shape, a slice of it, and the views that
   broadcast and transpose make of the array and expand_dim of the slice *)
ViewBounds == {<<>>, <<At(0)>>, <<In(0, 1, 1)>>, <<Of(<<0, 0>>)>>}

NextView ==
    \/ /\ Room(1) /\ Sequential
       /\ \E shape \in SliceShapes : from_vec(shape, Iota(Product(shape)))
    \/ /\ Len(nodes) = 1 /\ Sequential
       /\ \E bounds \in ViewBounds : slice(1, bounds)
    \/ /\ Len(nodes) = 1 /\ Sequential
       /\ \E shape \in TransShapes : broadcast(1, shape)
    \/ /\ Len(nodes) = 1 /\ Sequential
       /\ \E axes \in AxesInputs : transpose(1, axes)
    \/ /\ Len(nodes) = 2 /\ Sequential
       /\ \E i \in 1..Len(nodes), axis \in 0..(MaxRank + 1) :
             nodes[i].kind = "Slice" /\ expand_dim(i, axis)

SpecView == Init /\ [][NextView]_vars

----------------------------------------------------------------------------
(* Threads.  Every thread holds a clone of one Base (cell 1) and calls read
   and write on it.  RwLock::read waits while a writer holds the lock,
   RwLock::write waits while anyone holds it, and the guard is dropped when
   the call returns.  The copies made under the guard (to_vec,
   copy_from_slice, the blocking device transfers) move one element per
   step. *)

Idle == [pc |-> "idle", buffer |-> <<>>, copied |-> 0]

Threads == 1..MaxThreads

heap == <<cells, written, nodes, last, platform>>

\* self.data.read() in NDArrayRead for ArrayBase
read_lock(t) ==
    /\ threads[t].pc = "idle"
    /\ lock.writers = {}
    /\ lock' = [lock EXCEPT !.readers = @ \cup {t}]
    /\ threads' = [threads EXCEPT ![t] = [pc |-> "reading", buffer |-> <<>>, copied |-> 0]]
    /\ UNCHANGED heap

\* one element of data.to_vec() / buffer.write(data.as_slice())
read_copy(t) ==
    /\ threads[t].pc = "reading"
    /\ threads[t].copied < Len(cells[1])
    /\ threads' = [threads EXCEPT ![t].buffer = Append(@, cells[1][threads[t].copied + 1]),
                                  ![t].copied = @ + 1]
    /\ UNCHANGED <<heap, lock>>

\* the read guard is dropped and the buffer returned
read_unlock(t) ==
    /\ threads[t].pc = "reading"
    /\ threads[t].copied = Len(cells[1])
    /\ lock' = [lock EXCEPT !.readers = @ \ {t}]
    /\ threads' = [threads EXCEPT ![t].pc = "read_done"]
    /\ UNCHANGED heap

\* write's other.read(queue): thread t writes from an array of its own, of
\* the same shape, that holds t in every element
write_read(t) ==
    /\ threads[t].pc = "idle"
    /\ threads' = [threads EXCEPT ![t] = [pc |-> "write_wait",
                                          buffer |-> [i \in 1..Len(cells[1]) |-> t],
                                          copied |-> 0]]
    /\ UNCHANGED <<heap, lock>>

\* a write lock taken without waiting for the readers and writers
write_lock_no_wait(t) ==
    /\ threads[t].pc = "write_wait"
    /\ lock' = [lock EXCEPT !.writers = @ \cup {t}]
    /\ threads' = [threads EXCEPT ![t].pc = "writing"]
    /\ UNCHANGED heap

\* self.data.write() in NDArrayWrite for ArrayBase
write_lock(t) ==
    /\ threads[t].pc = "write_wait"
    /\ lock.readers = {} /\ lock.writers = {}
    /\ lock' = [lock EXCEPT !.writers = @ \cup {t}]
    /\ threads' = [threads EXCEPT ![t].pc = "writing"]
    /\ UNCHANGED heap

\* one element of data.copy_from_slice(&buffer[..]) / buffer.read(&mut data[..])
write_copy(t) ==
    /\ threads[t].pc = "writing"
    /\ threads[t].copied < Len(cells[1])
    /\ cells' = [cells EXCEPT ![1][threads[t].copied + 1] =
                                  threads[t].buffer[threads[t].copied + 1]]
    /\ threads' = [threads EXCEPT ![t].copied = @ + 1]
    /\ UNCHANGED <<written, nodes, last, lock, platform>>

\* the write guard is dropped and write returns Ok
write_unlock(t) ==
    /\ threads[t].pc = "writing"
    /\ threads[t].copied = Len(cells[1])
    /\ lock' = [lock EXCEPT !.writers = @ \ {t}]
    /\ written' = [written EXCEPT ![nodes[1].origin] = threads[t].buffer]
    /\ threads' = [threads EXCEPT ![t].pc = "write_done"]
    /\ UNCHANGED <<cells, nodes, last, platform>>

\* the caller takes the result and is free to call again
return(t) ==
    /\ threads[t].pc \in {"read_done", "write_done"}
    /\ threads' = [threads EXCEPT ![t] = Idle]
    /\ UNCHANGED <<heap, lock>>

\* the state after ArrayBase::constant(vec![SharedLen], 0), a clone per thread
InitThreads ==
    /\ cells = <<[i \in 1..SharedLen |-> 0]>>
    /\ written = <<[i \in 1..SharedLen |-> 0]>>
    /\ nodes = <<Base(1, <<SharedLen>>, 1)>>
    /\ last = [op |-> "constant", shape |-> <<SharedLen>>, status |-> "Ok"]
    /\ lock = Free
    /\ threads = [t \in Threads |-> Idle]
    /\ platform = NoPlatform

NextThreads ==
    \/ \E t \in Threads : read_lock(t)
    \/ \E t \in Threads : read_copy(t)
    \/ \E t \in Threads : read_unlock(t)
    \/ \E t \in Threads : write_read(t)
    \/ \E t \in Threads : write_lock(t)
    \/ \E t \in Threads : write_copy(t)
    \/ \E t \in Threads : write_unlock(t)
    \/ \E t \in Threads : return(t)

SpecThreads == InitThreads /\ [][NextThreads]_vars

----------------------------------------------------------------------------
(* A write from a source that reads the destination.  One thread builds a
   Base (node 1, cell 1), clones, transposed views and slices of it, and
   calls nodes[1].write(nodes[s]).  The call is taken step by step: the shape
   test, the read of the source (ArrayBase::read at the end of the source
   chain takes the read guard, copies the vector and drops the guard when it
   returns; the view or slice above it reorders the copy), the write guard,
   the copy into the vector and the drop of the write guard. *)

SelfShapes == {<<2>>, <<3>>, <<2, 2>>}

\* the threads that call write: one
Writers == {1}

\* if self.shape == other.shape() { context.queue(self.size()) ... } else Err
write_begin(t, s, queue) ==
    /\ threads[t].pc = "idle"
    /\ nodes[1].kind = "Base"
    /\ nodes[s].kind # "Op"
    /\ IF nodes[1].shape = nodes[s].shape
       THEN /\ threads' = [threads EXCEPT ![t] =
                              [pc |-> "source_read", buffer |-> <<>>, copied |-> 0,
                               src |-> s, queue |-> queue, old |-> cells[1]]]
            /\ UNCHANGED last
       ELSE /\ last' = WriteCall(1, s, queue, FALSE, "Bounds")
            /\ UNCHANGED threads
    /\ UNCHANGED <<cells, written, nodes, lock, platform>>

\* self.data.read() in the ArrayBase::read that other.read(queue) ends in
source_read_lock(t) ==
    /\ threads[t].pc = "source_read"
    /\ lock.writers = {}
    /\ lock' = [lock EXCEPT !.readers = @ \cup {t}]
    /\ threads' = [threads EXCEPT ![t].pc = "source_reading"]
    /\ UNCHANGED heap

\* a source read that returns with the read guard still held
source_read_keeps_guard(t) ==
    /\ threads[t].pc = "source_reading"
    /\ LET buffer == Read(nodes[threads[t].src], threads[t].queue, cells)
       IN  threads' = [threads EXCEPT
                          ![t].pc = IF buffer.kind = "Panic" THEN "panicked"
                                    ELSE "write_wait",
                          ![t].buffer = buffer.data]
    /\ UNCHANGED <<heap, lock>>

\* the vector is copied, the read guard is dropped as ArrayBase::read
\* returns, and the views and slices above it reorder the copy
source_read(t) ==
    /\ threads[t].pc = "source_reading"
    /\ LET buffer == Read(nodes[threads[t].src], threads[t].queue, cells)
       IN  threads' = [threads EXCEPT
                          ![t].pc = IF buffer.kind = "Panic" THEN "panicked"
                                    ELSE "write_wait",
                          ![t].buffer = buffer.data]
    /\ lock' = [lock EXCEPT !.readers = @ \ {t}]
    /\ UNCHANGED heap

\* the state after the thread started, before it made an array
InitSelfWrite ==
    /\ cells = <<>>
    /\ written = <<>>
    /\ nodes = <<>>
    /\ last = [op |-> "init", status |-> "Ok"]
    /\ lock = Free
    /\ threads = <<Idle>>
    /\ platform = NoPlatform

NextSelfWrite ==
    \/ /\ Room(1) /\ Sequential
       /\ \E shape \in SelfShapes : from_vec(shape, Iota(Product(shape)))
    \/ /\ Len(nodes) >= 1 /\ Room(MaxNodes) /\ Sequential
       /\ \A t \in Writers : threads[t].pc = "idle"
       /\ \E i \in 1..Len(nodes) : nodes[i].kind = "Base" /\ clone(i)
    \/ /\ Len(nodes) >= 1 /\ Room(MaxNodes) /\ Sequential
       /\ \A t \in Writers : threads[t].pc = "idle"
       /\ \E i \in 1..Len(nodes) : nodes[i].kind = "Base" /\ transpose(i, None)
    \/ /\ Len(nodes) >= 1 /\ Room(MaxNodes) /\ Sequential
       /\ \A t \in Writers : threads[t].pc = "idle"
       /\ \E i \in 1..Len(nodes) : nodes[i].kind = "Base" /\ slice(i, <<>>)
    \/ /\ Len(nodes) >= 1
       /\ \E t \in Writers, s \in 1..Len(nodes), queue \in Queues :
             write_begin(t, s, queue)
    \/ \E t \in Writers : source_read_lock(t)
    \/ \E t \in Writers : source_read(t)
    \/ \E t \in Writers : write_lock(t)
    \/ \E t \in Writers : write_copy(t)
    \/ \E t \in Writers : write_unlock(t)
    \/ \E t \in Writers : return(t)

\* the thread that called write keeps running until the call returns
SpecSelfWrite ==
    /\ InitSelfWrite /\ [][NextSelfWrite]_vars
    /\ \A t \in Writers :
          /\ WF_vars(source_read_lock(t))
          /\ WF_vars(source_read(t))
          /\ WF_vars(write_lock(t))
          /\ WF_vars(write_copy(t))
          /\ WF_vars(write_unlock(t))

----------------------------------------------------------------------------
(* Device selection.  Every thread holds a clone of one Context; the clones
   share the three DeviceLists' counters (Arc<AtomicUsize>).  A call of
   select_device tries the lists of its branch in order; DeviceList::next
   returns None for an empty list and otherwise takes a counter value with
   fetch_add and returns devices[idx % len].  calls, handed and started are
   history fields. *)

Classes == {"cpu", "gpu", "acc"}

Callers == 1..MaxCallers

\* calls of select_device in one run: enough to wrap a counter and go on
MaxCalls == 2 ^ CounterBits + 2

\* a fetch_add that loads the counter and leaves it as it is
fetch_add_load_only(counter) == [old |-> counter, new |-> counter]

\* AtomicUsize::fetch_add(1, Relaxed): one atomic step, wrapping
fetch_add(counter) == [old |-> counter, new |-> (counter + 1) % (2 ^ CounterBits)]

\* the lists select_device tries when it stops at the first one
select_device_lists_first_only(size_hint) ==
    IF size_hint < platform.gpu_min THEN <<"cpu">>
    ELSE IF size_hint < platform.acc_min THEN <<"gpu">>
    ELSE <<"acc">>

\* the lists Context::select_device tries, in order, for a size hint
select_device_lists(size_hint) ==
    IF size_hint < platform.gpu_min THEN <<"cpu">>
    ELSE IF size_hint < platform.acc_min THEN <<"gpu", "cpu">>
    ELSE <<"acc", "gpu", "cpu">>

\* Context::select_device is entered
select_device(t, size_hint) ==
    /\ threads[t].pc = "idle"
    /\ platform.started < MaxCalls
    /\ threads' = [threads EXCEPT ![t] = [pc |-> "next", hint |-> size_hint,
                                          lists |-> select_device_lists(size_hint)]]
    /\ platform' = [platform EXCEPT !.started = @ + 1]
    /\ UNCHANGED <<cells, written, nodes, last, lock>>

\* DeviceList::next on the first list left: None for an empty list, which
\* or_else answers with the next list; otherwise the fetch_add
DeviceList_next(t) ==
    /\ threads[t].pc = "next"
    /\ LET list == Head(threads[t].lists)
           fetched == fetch_add(platform.next[list])
       IN  IF platform.devices[list] = 0
           THEN /\ threads' = [threads EXCEPT ![t] =
                       IF Tail(threads[t].lists) = <<>>
                       THEN [pc |-> "selected", hint |-> threads[t].hint,
                             device |-> None]
                       ELSE [threads[t] EXCEPT !.lists = Tail(@)]]
                /\ UNCHANGED platform
           ELSE /\ threads' = [threads EXCEPT ![t] =
                       [pc |-> "get", hint |-> threads[t].hint, list |-> list,
                        idx |-> fetched.old, ordinal |-> platform.calls[list]]]
                /\ platform' = [platform EXCEPT !.next[list] = fetched.new,
                                                !.calls[list] = @ + 1]
    /\ UNCHANGED <<cells, written, nodes, last, lock>>

\* self.devices.get(idx % self.devices.len()).copied()
DeviceList_get(t) ==
    /\ threads[t].pc = "get"
    /\ LET list == threads[t].list
           index == threads[t].idx % platform.devices[list]
       IN  /\ threads' = [threads EXCEPT ![t] =
                  [pc |-> "selected", hint |-> threads[t].hint,
                   device |-> Some([list |-> list, index |-> index,
                                    idx |-> threads[t].idx,
                                    ordinal |-> threads[t].ordinal])]]
           /\ platform' = [platform EXCEPT !.handed[list][index] = @ + 1]
    /\ UNCHANGED <<cells, written, nodes, last, lock>>

\* a Queue::new that never opens a device queue
Queue_new_host_only(t) ==
    /\ threads[t].pc = "selected"
    /\ threads' = [threads EXCEPT ![t] =
           [pc |-> "queued", hint |-> threads[t].hint, device |-> threads[t].device,
            queue |-> [status |-> "Ok", cl_queue |-> None]]]
    /\ UNCHANGED <<heap, lock>>

\* Queue::new after its select_device: a device queue on the device selected,
\* which ocl::Queue::new may refuse with an error, and Queue::default
\* (cl_queue: None) when no device was selected
Queue_new(t) ==
    /\ threads[t].pc = "selected"
    /\ \E queue \in IF threads[t].device = None
                     THEN {[status |-> "Ok", cl_queue |-> None]}
                     ELSE {[status |-> "Ok", cl_queue |-> Some(threads[t].device[1])],
                           [status |-> "Err"]} :
          threads' = [threads EXCEPT ![t] =
              [pc |-> "queued", hint |-> threads[t].hint,
               device |-> threads[t].device, queue |-> queue]]
    /\ UNCHANGED <<heap, lock>>

\* the caller takes the device or the queue and is free to call again
select_return(t) ==
    /\ threads[t].pc \in {"selected", "queued"}
    /\ threads' = [threads EXCEPT ![t] = Idle]
    /\ UNCHANGED <<heap, lock>>

\* Context::new(gpu_min, acc_min, Some(platform)) over any three device
\* lists, a clone per thread
InitDevices ==
    /\ cells = <<>>
    /\ written = <<>>
    /\ nodes = <<>>
    /\ last = [op |-> "init", status |-> "Ok"]
    /\ lock = Free
    /\ threads = [t \in Callers |-> Idle]
    /\ \E devices \in [Classes -> 0..MaxDevices], gpu_min \in 1..MaxHint,
          acc_min \in 1..MaxHint :
          platform = [devices |-> devices, gpu_min |-> gpu_min, acc_min |-> acc_min,
                      next |-> [c \in Classes |-> 0],
                      calls |-> [c \in Classes |-> 0],
                      handed |-> [c \in Classes |-> [d \in 0..(devices[c] - 1) |-> 0]],
                      started |-> 0]

NextDevices ==
    \/ \E t \in Callers, size_hint \in 0..MaxHint : select_device(t, size_hint)
    \/ \E t \in Callers : DeviceList_next(t)
    \/ \E t \in Callers : DeviceList_get(t)
    \/ \E t \in Callers : Queue_new(t)
    \/ \E t \in Callers : select_return(t)

SpecDevices == InitDevices /\ [][NextDevices]_vars

----------------------------------------------------------------------------
(* Storage sharing and write, under Spec *)

WriteOk == last.op = "write" /\ last.status = "Ok"

\* the node with every handle's cell replaced by the allocation it descends from
RECURSIVE ByOrigin(_)
ByOrigin(n) ==
    IF n.kind = "Base" THEN [n EXCEPT !.cell = n.origin]
    ELSE [n EXCEPT !.source = ByOrigin(n.source)]

\* C2: after any sequence of from_vec, constant, clone, reshape, expand_dim
\* and write calls, successful or failed, every ArrayBase handle (held by the
\* program or embedded as the source of a view or slice) points to a stored
\* vector whose length is the product of the handle's own shape.
C2_DataFillsShape ==
    \A i \in 1..Len(nodes) :
        LET b == BaseOf(nodes[i])
        IN  Len(cells[b.cell]) = Product(b.shape)

\* two handles of different shape share one vector that a write has replaced
C2_Witness ==
    /\ WriteOk
    /\ last.old # cells[nodes[last.dst].cell]
    /\ \E i, j \in 1..Len(nodes) :
          /\ nodes[i].kind = "Base" /\ nodes[j].kind = "Base"
          /\ nodes[i].cell = nodes[j].cell
          /\ nodes[i].shape # nodes[j].shape

\* C4 as stated: after dst.write(src) returned Ok, reading dst yields exactly
\* the elements that reading src yields.
C4_ReadsAgreeAfterWrite ==
    WriteOk =>
        Read(nodes[last.dst], last.queue, cells).data
            = Read(nodes[last.src], last.queue, cells).data

\* C4 amended: after dst.write(src) returned Ok, reading dst (to a host or a
\* device buffer) yields exactly the elements that the read of src yielded
\* during the write, that is src evaluated on the write's queue against the
\* contents from before the write; and this is what reading src yields
\* afterwards whenever src does not read dst's own storage.
C4_WriteStoresSourceRead ==
    [][(last'.op = "write" /\ last'.status = "Ok") =>
          LET dst == nodes[last'.dst]
              src == nodes[last'.src]
          IN  \A q \in Queues :
                 /\ Read(dst, q, cells').data = Read(src, last'.queue, cells).data
                 /\ BaseOf(src).cell # dst.cell =>
                       Read(dst, q, cells').data = Read(src, last'.queue, cells').data
       ]_vars

\* a write through a device buffer of a view over dst itself changed dst
C4_Witness ==
    /\ WriteOk
    /\ last.queue = "CL"
    /\ nodes[last.src].kind = "View"
    /\ BaseOf(nodes[last.src]).cell = nodes[last.dst].cell
    /\ last.old # cells[nodes[last.dst].cell]

\* C5: dst.write(src) with dst.shape # src.shape returns Error::Bounds, does
\* not read src, and leaves every stored vector (so the data seen through dst
\* and through every handle sharing its storage) unchanged.
C5_MismatchRefused ==
    [][(last'.op = "write" /\ nodes[last'.dst].shape # nodes[last'.src].shape) =>
          (last'.status = "Bounds" /\ ~last'.read /\ cells' = cells)]_vars

\* a refused write between a [4]-like and a [2,2]-like array of equal size
\* whose destination shares its storage with another handle
C5_Witness ==
    /\ last.op = "write" /\ last.status = "Bounds"
    /\ size(nodes[last.dst]) = size(nodes[last.src])
    /\ BaseOf(nodes[last.src]).cell # nodes[last.dst].cell
    /\ \E j \in 1..Len(nodes) :
          j # last.dst /\ BaseOf(nodes[j]).cell = nodes[last.dst].cell

\* C7: once a write to a Base has returned, every read of that Base, of any
\* clone, reshape or expand_dim of it and of any view or slice whose source
\* chain ends in one of them observes the data last written: it returns what
\* the node's geometry yields on the data last stored for the allocation the
\* node descends from.
C7_SharersSeeWrite ==
    \A i \in 1..Len(nodes), q \in Queues :
        nodes[i].kind # "Op" =>
            Read(nodes[i], q, cells) = Read(ByOrigin(nodes[i]), q, written)

\* a write changed the data under a view or slice of the written Base
C7_Witness ==
    /\ WriteOk
    /\ last.old # cells[nodes[last.dst].cell]
    /\ \E j \in 1..Len(nodes) :
          /\ nodes[j].kind \in {"View", "Slice"}
          /\ BaseOf(nodes[j]).origin = nodes[last.dst].origin
          /\ Read(nodes[j], "CPU", cells).kind = "Host"

----------------------------------------------------------------------------
(* Concurrent reads and writes, under SpecThreads *)

\* the complete contents the shared vector can hold: the initial fill and the
\* source of each thread's write
Versions == {[i \in 1..SharedLen |-> v] : v \in {0} \cup Threads}

\* C6: under any interleaving of concurrent reads and writes on handles that
\* share one Base storage, a writer is exclusive (never two writers, never a
\* writer with a reader); every read returns the complete contents from
\* before or after some write, never a mix of elements of two writes, and the
\* vector does not change while a reader copies it; whenever no write is in
\* progress the storage equals the initial contents or exactly one of the
\* writes' sources.
C6_WriterExclusive ==
    /\ Cardinality(lock.writers) <= 1
    /\ lock.writers # {} => lock.readers = {}
    /\ \A t \in DOMAIN threads :
          /\ threads[t].pc = "read_done" => threads[t].buffer \in Versions
          /\ threads[t].pc = "reading" =>
                threads[t].buffer = SubSeq(cells[1], 1, threads[t].copied)
    /\ lock.writers = {} => cells[1] \in Versions

\* two readers overlap, half way through a vector that a write has replaced,
\* while a writer waits for the lock
C6_Witness ==
    /\ \E t, u \in DOMAIN threads :
          /\ t # u
          /\ threads[t].pc = "reading" /\ threads[t].copied = 1
          /\ threads[u].pc = "reading" /\ threads[u].copied = 1
    /\ \E w \in DOMAIN threads : threads[w].pc = "write_wait"
    /\ cells[1] # [i \in 1..SharedLen |-> 0]

----------------------------------------------------------------------------
(* Shape algebra, under SpecShape *)

\* the node the last call returned
Returned == nodes[Len(nodes)]

\* C1: ArrayBase::from_vec(shape, data) returns Ok (a Base of that shape
\* holding the data) exactly when data.len() equals the product of the
\* dimensions of shape, and Error::Bounds in every other case.
C1_FromVecChecksLength ==
    last.op = "from_vec" =>
        IF last.len = Product(last.shape)
        THEN /\ last.status = "Ok"
             /\ nodes # <<>>
             /\ Returned.kind = "Base"
             /\ Returned.shape = last.shape
             /\ Len(cells[Returned.cell]) = last.len
        ELSE last.status = "Bounds"

\* from_vec refused data one element short of a shape of two dimensions
C1_Witness ==
    /\ last.op = "from_vec" /\ last.status = "Bounds"
    /\ Len(last.shape) = 2
    /\ last.len > 0
    /\ last.len + 1 = Product(last.shape)

ValidShape(shape) == shape # <<>> /\ \A k \in 1..Len(shape) : shape[k] >= 1

AtCount(bounds) == Cardinality({k \in 1..Len(bounds) : bounds[k].kind = "At"})

\* C3: every node that from_vec, constant, reshape, expand_dim, slice,
\* broadcast or transpose returned successfully has a valid shape (not empty,
\* every dimension >= 1), and a successful slice changes the rank only by its
\* At axes.
C3_ReturnedShapesValid ==
    /\ \A i \in 1..Len(nodes) : ValidShape(nodes[i].shape)
    /\ (last.op = "slice" /\ last.status = "Ok") =>
          ndim(Returned) = ndim(nodes[last.src]) - AtCount(last.bounds)

\* C11: on a Base A, reshape(s1) succeeds exactly when the product of s1
\* equals the product of A.shape and returns Error::Bounds otherwise; the
\* result has shape s1 and reads back A's row-major element sequence (so the
\* [2,3] array 1..6 reshaped to [3,2] reads 1..6), and reshaping it back to
\* A.shape succeeds with A's shape and A's elements.
C11_ReshapeRoundTrip ==
    (last.op = "reshape" /\ nodes[last.src].kind = "Base") =>
        LET A == nodes[last.src]
        IN  IF Product(last.shape) = Product(A.shape)
            THEN /\ last.status = "Ok"
                 /\ Returned.shape = last.shape
                 /\ \A q \in Queues : Read(Returned, q, cells) = Read(A, q, cells)
                 /\ LET back == ArrayBase_reshape(Returned, A.shape)
                    IN  /\ back.status = "Ok"
                        /\ back.node.shape = A.shape
                        /\ Read(back.node, "CPU", cells) = Read(A, "CPU", cells)
                 /\ (A.shape = <<2, 3>> /\ last.shape = <<3, 2>>
                        /\ cells[A.cell] = Iota(6)) =>
                       Read(Returned, "CPU", cells).data = Iota(6)
            ELSE last.status = "Bounds"

\* the [2,3] array 1..6 was reshaped to [3,2]
C11_Witness ==
    /\ last.op = "reshape" /\ last.status = "Ok"
    /\ nodes[last.src].shape = <<2, 3>>
    /\ Returned.shape = <<3, 2>>
    /\ Read(Returned, "CPU", cells).data = Iota(6)

\* row-major strides, coordinates and offsets of a shape without the zero
\* strides of strides_for
RowMajor(shape) ==
    [i \in 1..Len(shape) |-> Product(SubSeq(shape, i + 1, Len(shape)))]

Coordinate(shape, offset) ==
    [i \in 1..Len(shape) |-> (offset \div RowMajor(shape)[i]) % shape[i]]

OffsetOf(shape, coord) ==
    Sum([i \in 1..Len(shape) |-> coord[i] * RowMajor(shape)[i]])

----------------------------------------------------------------------------
(* Device selection, under SpecDevices *)

HasDevices(class) == platform.devices[class] > 0

\* the device is one of the first list of the order that is not empty, and
\* None when every list of the order is empty
Picks(device, order) ==
    LET candidates == SelectSeq(order, HasDevices)
    IN  IF candidates = <<>> THEN device = None
        ELSE /\ device # None
             /\ device[1].list = Head(candidates)
             /\ device[1].index \in 0..(platform.devices[Head(candidates)] - 1)

\* C19: select_device(size_hint) returns the next CPU device when
\* size_hint < gpu_min; otherwise, when size_hint < acc_min, the next GPU or,
\* without a GPU, the next CPU; otherwise the next accelerator or, without
\* one, the next GPU or, without one, the next CPU: always a device of the
\* first class of that order that has a device.
C19_SelectDeviceByThreshold ==
    \A t \in DOMAIN threads :
        threads[t].pc = "selected" =>
            IF threads[t].hint < platform.gpu_min
            THEN Picks(threads[t].device, <<"cpu">>)
            ELSE IF threads[t].hint < platform.acc_min
            THEN Picks(threads[t].device, <<"gpu", "cpu">>)
            ELSE Picks(threads[t].device, <<"acc", "gpu", "cpu">>)

\* a hint at or above both thresholds fell back twice, to a CPU device
C19_Witness ==
    \E t \in DOMAIN threads :
        /\ threads[t].pc = "selected"
        /\ threads[t].hint >= platform.gpu_min /\ threads[t].hint >= platform.acc_min
        /\ platform.devices["acc"] = 0 /\ platform.devices["gpu"] = 0
        /\ threads[t].device # None
        /\ threads[t].device[1].list = "cpu"

\* the threads that hold a counter value of a list
Holders(list) ==
    {t \in DOMAIN threads :
        \/ threads[t].pc = "get" /\ threads[t].list = list
        \/ /\ threads[t].pc = "selected" /\ threads[t].device # None
           /\ threads[t].device[1].list = list}

Held(t) == IF threads[t].pc = "get" THEN threads[t] ELSE threads[t].device[1]

\* every call of next() on the list has returned
Settled(list) == \A t \in DOMAIN threads : ~(threads[t].pc = "get" /\ threads[t].list = list)

\* C20 as stated: on a list of n > 0 devices the j-th call of next(), over
\* all threads and clones, returns device j mod n; no two calls hold the same
\* counter value; and once n*m calls were made and have returned, every device
\* was handed out exactly m times.
C20_RoundRobin ==
    \A list \in Classes :
        LET n == platform.devices[list]
        IN  /\ \A t \in Holders(list) :
                  threads[t].pc = "selected" =>
                      threads[t].device[1].index = threads[t].device[1].ordinal % n
            /\ \A t1, t2 \in Holders(list) :
                  t1 # t2 => Held(t1).idx # Held(t2).idx
            /\ \A m \in 0..MaxCalls :
                  (n > 0 /\ Settled(list) /\ platform.calls[list] = n * m) =>
                      \A d \in 0..(n - 1) : platform.handed[list][d] = m

\* C20, within the width of the counter: the j-th call of next() obtains the
\* counter value j mod 2^w and returns device (j mod 2^w) mod n; two calls
\* fewer than 2^w calls apart hold different counter values; and once n*m
\* calls, at most 2^w, were made and have returned, every device was handed
\* out exactly m times.
C20_RoundRobinUntilWrap ==
    \A list \in Classes :
        LET n == platform.devices[list]
            wrap == 2 ^ CounterBits
        IN  /\ \A t \in Holders(list) :
                  /\ Held(t).idx = Held(t).ordinal % wrap
                  /\ threads[t].pc = "selected" =>
                        threads[t].device[1].index = (threads[t].device[1].ordinal % wrap) % n
            /\ \A t1, t2 \in Holders(list) :
                  t1 # t2 =>
                      /\ Held(t1).ordinal # Held(t2).ordinal
                      /\ (Held(t1).ordinal - Held(t2).ordinal \in (1 - wrap)..(wrap - 1)) =>
                            Held(t1).idx # Held(t2).idx
            /\ \A m \in 0..MaxCalls :
                  (n > 0 /\ Settled(list) /\ platform.calls[list] = n * m
                         /\ platform.calls[list] <= wrap) =>
                      \A d \in 0..(n - 1) : platform.handed[list][d] = m

\* on a list of three devices one thread holds the last counter value before
\* the wrap and another the first one after it, which selects device 0 again
C20_Witness ==
    \E list \in Classes :
        /\ platform.devices[list] = 3
        /\ \E t1, t2 \in Holders(list) :
              /\ t1 # t2
              /\ threads[t1].pc = "selected" /\ threads[t2].pc = "selected"
              /\ Held(t1).ordinal = 2 ^ CounterBits - 1
              /\ Held(t1).idx = 2 ^ CounterBits - 1
              /\ Held(t2).ordinal = 2 ^ CounterBits
              /\ Held(t2).idx = 0 /\ Held(t2).index = 0

\* the lists of the branch select_device takes for a size hint
BranchLists(hint) ==
    IF hint < platform.gpu_min THEN {"cpu"}
    ELSE IF hint < platform.acc_min THEN {"gpu", "cpu"}
    ELSE {"acc", "gpu", "cpu"}

\* an empty DeviceList never advances its counter
EmptyListsUntouched ==
    \A list \in Classes :
        platform.devices[list] = 0 =>
            platform.next[list] = 0 /\ platform.calls[list] = 0

\* a queue is host-only exactly when its select_device found no device
QueueFollowsDevice ==
    \A t \in DOMAIN threads :
        (threads[t].pc = "queued" /\ threads[t].queue.status = "Ok") =>
            (threads[t].queue.cl_queue = None <=> threads[t].device = None)

\* C21 as stated: select_device returns a device whenever some class of the
\* platform has a device; a queue made by Queue::new is host-only only when no
\* device was selected; an empty class keeps its counter.
C21_SelectFallsThrough ==
    /\ \A t \in DOMAIN threads :
          (threads[t].pc \in {"selected", "queued"}
              /\ \E list \in Classes : platform.devices[list] > 0)
          => threads[t].device # None
    /\ QueueFollowsDevice
    /\ EmptyListsUntouched

\* C21, for the lists of the branch only: select_device returns a device
\* exactly when a list of its branch (cpu below gpu_min; gpu, cpu below
\* acc_min; acc, gpu, cpu otherwise) has a device, so a small size hint on a
\* platform without a CPU device gets none; a queue made by Queue::new is
\* host-only exactly when no device was selected; an empty class keeps its
\* counter.
C21_SelectFallsThroughBranch ==
    /\ \A t \in DOMAIN threads :
          threads[t].pc \in {"selected", "queued"} =>
              (threads[t].device # None
                  <=> \E list \in BranchLists(threads[t].hint) :
                          platform.devices[list] > 0)
    /\ QueueFollowsDevice
    /\ EmptyListsUntouched

\* a queue on a GPU device after the empty accelerator list was passed over,
\* and a host-only queue for a small hint although the platform has that GPU
C21_Witness ==
    /\ platform.devices["acc"] = 0 /\ platform.devices["cpu"] = 0
    /\ platform.devices["gpu"] > 0
    /\ \E t1, t2 \in DOMAIN threads :
          /\ threads[t1].pc = "queued" /\ threads[t2].pc = "queued"
          /\ threads[t1].hint >= platform.acc_min
          /\ threads[t1].queue.status = "Ok"
          /\ threads[t1].queue.cl_queue # None
          /\ threads[t1].queue.cl_queue[1].list = "gpu"
          /\ threads[t2].hint < platform.gpu_min
          /\ threads[t2].queue = [status |-> "Ok", cl_queue |-> None]

----------------------------------------------------------------------------
(* Array mathematics, under SpecMath *)

\* C22: every construction of add, sub, mul, div or rem on two arrays, by the
\* NDArrayMath method or by the overloaded operator, returns Ok with the
\* common shape when the shapes are equal and Error::Bounds, without a panic,
\* when they differ.
C22_DualShapesChecked ==
    last.op \in {"math", "operator"} =>
        IF nodes[last.src].shape = nodes[last.rhs].shape
        THEN last.status = "Ok" /\ Returned.shape = nodes[last.src].shape
        ELSE last.status = "Bounds"

\* C23: matmul succeeds exactly when both operands have ndim >= 2, the same
\* ndim, equal batch prefixes (all axes but the last two) and
\* self.shape[ndim-1] = other.shape[ndim-2]; the result then has the shape
\* batch ++ [self.shape[ndim-2], other.shape[ndim-1]]; every other input
\* returns Error::Bounds.
C23_MatmulShapesChecked ==
    last.op = "matmul" =>
        LET A == nodes[last.src].shape
            B == nodes[last.rhs].shape
            nd == Len(A)
        IN  IF /\ nd >= 2 /\ Len(B) = nd
               /\ \A k \in 1..(nd - 2) : A[k] = B[k]
               /\ A[nd] = B[nd - 1]
            THEN /\ last.status = "Ok"
                 /\ Returned.shape = [k \in 1..nd |->
                        IF k <= nd - 2 THEN A[k]
                        ELSE IF k = nd - 1 THEN A[nd - 1] ELSE B[nd]]
            ELSE last.status = "Bounds"

\* a batch of two [1,3] matrices times a batch of two [3,2] matrices
C23_Witness ==
    /\ last.op = "matmul" /\ last.status = "Ok"
    /\ nodes[last.src].shape = <<2, 1, 3>>
    /\ nodes[last.rhs].shape = <<2, 3, 2>>
    /\ Returned.shape = <<2, 1, 2>>

\* the source shape without its entry at position axis (0-based)
WithoutAxis(shape, axis) ==
    [k \in 1..(Len(shape) - 1) |-> IF k <= axis THEN shape[k] ELSE shape[k + 1]]

\* C24: sum_axis, max_axis, min_axis and product_axis return the same for
\* the same input: Error::Bounds when axis >= ndim, the shape [1] when
\* ndim = 1, and otherwise the source shape with the entry at position axis
\* removed and the others in their order.
C24_ReduceAxisShapes ==
    last.op = "reduce" =>
        LET A == nodes[last.src]
        IN  /\ \A name \in ReduceNames :
                  LET other == NDArrayReduce_axis(A, name, last.axis)
                  IN  /\ other.status = last.status
                      /\ last.status = "Ok" => other.node.shape = Returned.shape
            /\ IF last.axis >= ndim(A) THEN last.status = "Bounds"
               ELSE /\ last.status = "Ok"
                    /\ Returned.shape = IF ndim(A) = 1 THEN <<1>>
                                        ELSE WithoutAxis(A.shape, last.axis)

\* the middle axis of [2,1,3] was reduced by max_axis, leaving [2,3]
C24_Witness ==
    /\ last.op = "reduce" /\ last.status = "Ok"
    /\ last.name = "max" /\ last.axis = 1
    /\ nodes[last.src].shape = <<2, 1, 3>>
    /\ Returned.shape = <<2, 3>>

----------------------------------------------------------------------------
(* Scalars, under SpecScalar *)

\* C25: neg(x) is the arithmetic negation of x in the type Neg: for a signed
\* x other than the type minimum, x + neg(x) = 0, and for an unsigned x that
\* the signed type of the same width can hold, neg(x) = -x.
C25_NegNegates ==
    (/\ last.op = "neg_scalar"
     /\ \/ last.type = "i" /\ last.x # TypeMin("i")
        \/ last.type = "u" /\ last.x <= TypeMax("i"))
    => /\ last.status = "Ok"
       /\ last.result.value = -last.x

\* C29: a host reduction over an integer buffer returns, for every way the
\* parallel reduction is partitioned and combined, the result of the
\* sequential fold: sum from zero with +, product from one with *, max and
\* min the largest and smallest element (the type's min and max bound for an
\* empty buffer); all tells that every element is non-zero, any that some
\* element is.
C29_ReductionsDeterministic ==
    /\ last.op = "reduce_host" =>
          /\ last.result = fold(last.type, last.name,
                                [status |-> "Ok", value |-> identity(last.type, last.name)],
                                last.data, last.checked)
          /\ (last.name \in {"max", "min"} /\ last.data # <<>>) =>
                /\ last.status = "Ok"
                /\ \E k \in 1..Len(last.data) : last.data[k] = last.result.value
                /\ \A k \in 1..Len(last.data) :
                      IF last.name = "max" THEN last.data[k] <= last.result.value
                      ELSE last.data[k] >= last.result.value
          /\ (last.name = "max" /\ last.data = <<>>) =>
                last.result.value = TypeMin(last.type)
          /\ (last.name = "min" /\ last.data = <<>>) =>
                last.result.value = TypeMax(last.type)
    /\ last.op = "test_host" =>
          last.result = IF last.name = "all"
                        THEN \A k \in 1..Len(last.data) : last.data[k] # 0
                        ELSE \E k \in 1..Len(last.data) : last.data[k] # 0

----------------------------------------------------------------------------
(* Device program source, under SpecPrograms *)

\* C30: for every operation of the Dual and Scalar families (add, sub, mul,
\* div, rem, and log and pow of the float variants) the generated
\* elementwise_dual / elementwise_scalar source defines the helper function
\* that the kernel body calls, so that no supported operation references an
\* undefined function; and two different scalar types never have the same
\* type tag.
C30_HelpersDefined ==
    /\ last.op \in {"elementwise_dual", "elementwise_scalar"} =>
          \E h \in last.program.helpers : h.name = last.program.call
    /\ \A a, b \in CTypes : a # b => TYPE_STR(a) # TYPE_STR(b)

----------------------------------------------------------------------------
(* Strides, under SpecTranspose *)

\* ndim - len(shape) zeros, then 0 for a dimension of 1 and otherwise the
\* product of the dimensions to the right
ClaimedStrides(shape, nd) ==
    LET lead == nd - Len(shape)
    IN  [i \in 1..nd |->
            IF i <= lead THEN 0
            ELSE IF shape[i - lead] = 1 THEN 0
            ELSE Product(SubSeq(shape, i - lead + 1, Len(shape)))]

\* C18: strides_for(shape, ndim) with ndim >= len(shape) returns exactly ndim
\* entries, ndim - len(shape) leading zeros and then per axis 0 for a
\* dimension of 1 and otherwise the product of the dimensions to its right;
\* the copies in lib.rs and array.rs return the same vector; a transposed
\* view carries these strides of its source, permuted by the axes.
C18_StridesFor ==
    /\ \A k \in 1..Len(nodes) :
          \A nd \in ndim(nodes[k])..(MaxTransRank + 1) :
              /\ Len(strides_for(nodes[k].shape, nd)) = nd
              /\ strides_for(nodes[k].shape, nd) = ClaimedStrides(nodes[k].shape, nd)
              /\ lib_strides_for(nodes[k].shape, nd) = strides_for(nodes[k].shape, nd)
    /\ (last.op = "transpose" /\ last.status = "Ok") =>
          LET A == nodes[last.src]
              ax == IF last.axes = None THEN Reversed(ndim(A)) ELSE last.axes[1]
          IN  Returned.strides =
                  [i \in 1..ndim(A) |-> ClaimedStrides(A.shape, ndim(A))[ax[i] + 1]]

\* the strides 3, 0, 1 of shape [2,1,3] were taken in reverse by a transpose
C18_Witness ==
    /\ last.op = "transpose" /\ last.status = "Ok"
    /\ nodes[last.src].shape = <<2, 1, 3>>
    /\ Returned.strides = <<1, 0, 3>>
    /\ lib_strides_for(<<2, 1, 3>>, 4) = <<0, 3, 0, 1>>

----------------------------------------------------------------------------
(* Broadcasting, under SpecShape *)

\* S aligned with the suffix of T: every dimension equal or 1
Broadcastable(S, T) ==
    /\ Len(S) <= Len(T)
    /\ \A i \in 1..Len(S) : S[i] = T[Len(T) - Len(S) + i] \/ S[i] = 1

\* C16: broadcast(T) on a source of shape S returns Ok exactly when
\* len(S) <= len(T) and every dimension of S, aligned with the suffix of T,
\* equals the target dimension or 1, and Error::Bounds otherwise; the view
\* returned has shape T and len(T) strides.
C16_BroadcastChecked ==
    (last.op = "broadcast" /\ nodes[last.src].kind \in {"Base", "Op"}) =>
        IF Broadcastable(nodes[last.src].shape, last.shape)
        THEN /\ last.status = "Ok"
             /\ Returned.kind = "View"
             /\ Returned.shape = last.shape
             /\ Len(Returned.strides) = Len(last.shape)
        ELSE last.status = "Bounds"

\* [3] was broadcast to [2,3], with a zero stride on the added axis
C16_Witness ==
    /\ last.op = "broadcast" /\ last.status = "Ok"
    /\ nodes[last.src].shape = <<3>>
    /\ Returned.shape = <<2, 3>>
    /\ Returned.strides = <<0, 1>>

\* C17: reading a broadcast view returns, at output coordinate c, the source
\* element at the coordinate that drops the leading added axes and has 0 on
\* every source axis of size 1; a shape-[1] array broadcast to any shape reads
\* as a constant array of that shape, and [1,3] broadcast to [2,3] repeats
\* the row.
C17_BroadcastReadMapsElements ==
    (last.op = "broadcast" /\ last.status = "Ok" /\ nodes[last.src].kind = "Base") =>
        LET A == nodes[last.src]
            S == A.shape
            T == last.shape
            off == Len(T) - Len(S)
            expected == [o \in 1..Product(T) |->
                            LET c == Coordinate(T, o - 1)
                                d == [i \in 1..Len(S) |->
                                         IF S[i] = 1 THEN 0 ELSE c[off + i]]
                            IN  cells[A.cell][OffsetOf(S, d) + 1]]
            read == Read(Returned, "CPU", cells)
        IN  /\ read = Host(expected)
            /\ S = <<1>> =>
                  read.data = [o \in 1..Product(T) |-> cells[A.cell][1]]
            /\ (S = <<1, 3>> /\ T = <<2, 3>>) =>
                  read.data = cells[A.cell] \o cells[A.cell]

\* the row 1, 2, 3 of shape [1,3] was broadcast to [2,3] and reads 1..3 twice
C17_Witness ==
    /\ last.op = "broadcast" /\ last.status = "Ok"
    /\ nodes[last.src].kind = "Base"
    /\ nodes[last.src].shape = <<1, 3>>
    /\ last.shape = <<2, 3>>
    /\ Read(Returned, "CPU", cells).data = <<1, 2, 3, 1, 2, 3>>

----------------------------------------------------------------------------
(* Slicing, under SpecSlice *)

SliceOk == last.op = "slice" /\ last.status = "Ok"

\* the bounds In(0, dim, 1) on every axis of a shape
FullBounds(shape) == [k \in 1..Len(shape) |-> In(0, shape[k], 1)]

\* C12: for every source of valid shape, dimensions of 1 included, slicing
\* with In(0, dim_i, 1) on every axis and reading the slice on the host
\* yields, without a panic, the elements of the source.
C12_SliceIdentity ==
    (SliceOk /\ nodes[last.src].kind = "Base"
        /\ last.bounds = FullBounds(nodes[last.src].shape))
    => Read(Returned, "CPU", cells) = Host(cells[nodes[last.src].cell])

\* the validation the bounds are to pass
ValidBound(bound, dim) ==
    CASE bound.kind = "At" -> bound.i < dim
      [] bound.kind = "In" ->
            /\ bound.start <= bound.stop
            /\ bound.start <= dim /\ bound.stop <= dim
            /\ bound.step > 0
      [] bound.kind = "Of" -> \A k \in 1..Len(bound.indices) : bound.indices[k] < dim

\* C13: ArraySlice::new returns Ok when the bound list is no longer than the
\* source rank and every bound is valid for its dimension (At(i): i < dim;
\* In(start, stop, step): start <= stop, both <= dim, step > 0; Of(indices):
\* every index < dim), and Error::Bounds, without a panic and without a
\* slice, in every other case.
C13_SliceBoundsValidated ==
    last.op = "slice" =>
        LET A == nodes[last.src]
        IN  IF /\ Len(last.bounds) <= ndim(A)
               /\ \A k \in 1..Len(last.bounds) : ValidBound(last.bounds[k], A.shape[k])
            THEN last.status = "Ok"
            ELSE last.status = "Bounds"

\* (stop - start) / step for In, indices.len() for Of
ClaimedSize(bound) ==
    IF bound.kind = "In" THEN (bound.stop - bound.start) \div bound.step
    ELSE Len(bound.indices)

NotAt(bound) == bound.kind # "At"

\* C14: a slice built from k <= ndim bounds stores the k bounds followed by
\* In(0, dim, 1) for the trailing ndim - k source axes, and its shape has, in
\* source-axis order, one entry per bound that is not At: (stop - start)/step
\* for In and indices.len() for Of; exactly the At axes are dropped.
C14_SliceShapeDropsAtAxes ==
    SliceOk =>
        LET A == nodes[last.src]
            given == Len(last.bounds)
            kept == SelectSeq(Returned.bounds, NotAt)
        IN  /\ Returned.bounds
                  = last.bounds \o [k \in 1..(ndim(A) - given) |->
                                       In(0, A.shape[given + k], 1)]
            /\ Returned.shape = [k \in 1..Len(kept) |-> ClaimedSize(kept[k])]

\* the source index bound k selects at output coordinate c: the cursor x
\* counts the bounds before k that are not At
SourceIndex(bounds, k, c) ==
    LET x == Cardinality({j \in 1..(k - 1) : bounds[j].kind # "At"})
    IN  CASE bounds[k].kind = "At" -> bounds[k].i
          [] bounds[k].kind = "In" -> bounds[k].start + c[x + 1] * bounds[k].step
          [] bounds[k].kind = "Of" -> bounds[k].indices[c[x + 1] + 1]

\* C15: reading a slice on the host returns, at output coordinate c, the
\* source element at the coordinate that the walk over the bounds gives
\* (At(j): j, cursor kept; In(s, _, k): s + c[x]*k; Of(idx): idx[c[x]], cursor
\* advanced); slicing the [2,3] array 1..6 with [At(1), In(0,3,1)] yields
\* [4,5,6].  Stated for bounds that are valid and select at least one index.
C15_SliceReadWalksBounds ==
    (/\ SliceOk /\ nodes[last.src].kind = "Base"
     /\ \A k \in 1..Len(Returned.bounds) :
           /\ ValidBound(Returned.bounds[k], nodes[last.src].shape[k])
           /\ NotAt(Returned.bounds[k]) => ClaimedSize(Returned.bounds[k]) >= 1)
    => LET A == nodes[last.src]
           bounds == Returned.bounds
           kept == SelectSeq(bounds, NotAt)
           shape == [k \in 1..Len(kept) |-> ClaimedSize(kept[k])]
           expected == [o \in 1..Product(shape) |->
                           LET c == Coordinate(shape, o - 1)
                               d == [k \in 1..ndim(A) |-> SourceIndex(bounds, k, c)]
                           IN  cells[A.cell][OffsetOf(A.shape, d) + 1]]
       IN  /\ Read(Returned, "CPU", cells) = Host(expected)
           /\ (A.shape = <<2, 3>> /\ last.bounds = <<At(1), In(0, 3, 1)>>) =>
                 expected = <<4, 5, 6>>

\* C26: for every slice that ArraySlice::new accepts, an empty range, a step
\* larger than the range and an empty index list included, the host read
\* stays inside its buffers at every output offset: the cursor stays below
\* the length of the output coordinate, every Of lookup is within indices,
\* and the source offset is below source.size().  Stated for slices without
\* a reversed range and without a zero output stride.
C26_SliceReadInBounds ==
    (/\ SliceOk /\ nodes[last.src].kind = "Base"
     /\ \A k \in 1..Len(Returned.bounds) :
           Returned.bounds[k].kind = "In" =>
               Returned.bounds[k].start <= Returned.bounds[k].stop
     /\ ~SliceDivByZero(Returned))
    => \A o \in 0..(size(Returned) - 1) :
           SliceOffset(Returned, o) \in 0..(size(nodes[last.src]) - 1)

----------------------------------------------------------------------------
(* A write from a source that reads the destination, under SpecSelfWrite *)

\* the source of the call in progress, read from the contents of before it
SourceOfOld(t) ==
    Read(nodes[threads[t].src], threads[t].queue,
         [cells EXCEPT ![1] = threads[t].old]).data

\* C28: a write to a Base from a source that reads that Base (the Base
\* itself, a clone, a view or a slice over it or over a clone) terminates
\* without deadlock: the thread holds no read guard when it asks for the
\* write lock, every call that passed the shape test returns, and what it
\* stored is the source evaluated against the contents from before the
\* write.
C28_SelfWriteTerminates ==
    \A t \in Writers :
        /\ [](threads[t].pc \in {"write_wait", "writing"} => t \notin lock.readers)
        /\ [](threads[t].pc = "write_done" =>
                 /\ BaseOf(nodes[threads[t].src]).cell = nodes[1].cell
                 /\ cells[1] = SourceOfOld(t))
        /\ (threads[t].pc = "source_read") ~> (threads[t].pc = "write_done")

\* the transpose of a square Base was written into the Base itself
C28_Witness ==
    \E t \in Writers :
        /\ threads[t].pc = "write_done"
        /\ nodes[threads[t].src].kind = "View"
        /\ nodes[1].shape = <<2, 2>>
        /\ cells[1] # threads[t].old
        /\ cells[1] = <<threads[t].old[1], threads[t].old[3],
                        threads[t].old[2], threads[t].old[4]>>

----------------------------------------------------------------------------
(* Views, under SpecView *)

\* C27: every view that broadcast, transpose or expand_dim made over a
\* source of valid shape has as many strides as dimensions, and for every
\* output offset below its size the source offset of the host read, the sum
\* of coordinate * source stride with coordinate 0 where the output stride
\* is 0, is below the size of the source.
C27_ViewOffsetsInSource ==
    \A k \in 1..Len(nodes) :
        (nodes[k].kind = "View" /\ ValidShape(nodes[k].source.shape)) =>
            /\ Len(nodes[k].strides) = Len(nodes[k].shape)
            /\ \A o \in 0..(size(nodes[k]) - 1) :
                  ViewOffset(nodes[k], o) \in 0..(size(nodes[k].source) - 1)

\* expand_dim made a view of more than one element over a slice
C27_Witness ==
    /\ last.op = "expand_dim" /\ last.status = "Ok"
    /\ nodes[last.src].kind = "Slice"
    /\ Returned.kind = "View"
    /\ size(Returned) > 1
    /\ ViewOffset(Returned, size(Returned) - 1) = size(nodes[last.src]) - 1

----------------------------------------------------------------------------
(* Transposition, under SpecTranspose *)

IsPermutation(axes, nd) ==
    /\ Len(axes) = nd
    /\ \A i \in 1..Len(axes) : axes[i] \in 0..(nd - 1)
    /\ \A i, j \in 1..Len(axes) : i # j => axes[i] # axes[j]

PermutationsOf(nd) == {a \in [1..nd -> 0..(nd - 1)] : IsPermutation(a, nd)}

Inverse(axes) ==
    [j \in 1..Len(axes) |-> (CHOOSE i \in 1..Len(axes) : axes[i] = j - 1) - 1]

\* the axes a transpose call asked for
AxesOf(call) ==
    IF call.axes = None THEN Reversed(ndim(nodes[call.src])) ELSE call.axes[1]

\* C8: for a source A and a permutation axes of [0, ndim), A.transpose(axes)
\* has shape[i] = A.shape[axes[i]], and its element at output coordinate c is
\* A's element at the coordinate d with d[axes[i]] = c[i]; axes = None
\* reverses the axis order, so a [2,3] array holding 1..6 reads back as
\* [1,4,2,5,3,6]; dimensions of 1 (stride 0) included.  Elements are those of
\* the host read of a view over a Base.
C8_TransposeMapsElements ==
    (last.op = "transpose" /\ last.status = "Ok") =>
        LET A == nodes[last.src]
            axes == AxesOf(last)
            host == Read(Returned, "CPU", cells)
        IN  /\ Returned.shape = [i \in 1..ndim(A) |-> A.shape[axes[i] + 1]]
            /\ A.kind = "Base" =>
                  /\ host.kind = "Host"
                  /\ Len(host.data) = size(A)
                  /\ \A o \in 0..(size(A) - 1) :
                        LET c == Coordinate(Returned.shape, o)
                            d == [j \in 1..ndim(A) |->
                                     c[CHOOSE i \in 1..ndim(A) : axes[i] = j - 1]]
                        IN  host.data[o + 1] = cells[A.cell][OffsetOf(A.shape, d) + 1]
                  /\ (A.shape = <<2, 3>> /\ cells[A.cell] = Iota(6) /\ last.axes = None) =>
                        host.data = <<1, 4, 2, 5, 3, 6>>

\* a transpose by axes that are not their own inverse, of an array with a
\* dimension of 1 and two larger ones, which reorders the elements
C8_Witness ==
    /\ last.op = "transpose" /\ last.status = "Ok"
    /\ nodes[last.src].kind = "Base"
    /\ last.axes # None
    /\ Inverse(last.axes[1]) # last.axes[1]
    /\ \E k \in 1..ndim(Returned) : Returned.shape[k] = 1
    /\ Read(Returned, "CPU", cells).data # cells[nodes[last.src].cell]

\* C9: for an array A of valid shape and any axes permutation,
\* A.transpose(axes).transpose(inverse_axes) succeeds, has A's shape and reads
\* back A's elements.
C9_TransposeRoundTrip ==
    \A i \in 1..Len(nodes) :
        (/\ last.op = "transpose" /\ last.src = i
         /\ nodes[i].kind = "View"
         /\ nodes[i].source.kind = "Base"
         /\ \E ax \in PermutationsOf(ndim(nodes[i])) :
               /\ ArrayBase_transpose(nodes[i].source, Some(ax)) = Ok(nodes[i])
               /\ last.axes = Some(Inverse(ax)))
        => /\ last.status = "Ok"
           /\ Returned.shape = nodes[i].source.shape
           /\ Read(Returned, "CPU", cells).data
                 = Read(nodes[i].source, "CPU", cells).data

\* C10: on a Base or an Op, transpose(Some(axes)) succeeds if and only if axes
\* is a permutation of [0, ndim) (length ndim, every axis exactly once, none
\* >= ndim); every other axes vector yields Error::Bounds and no view is
\* created.
C10_TransposeAxesChecked ==
    [][(/\ last'.op = "transpose" /\ last'.axes # None
        /\ nodes[last'.src].kind \in {"Base", "Op"})
       => IF IsPermutation(last'.axes[1], ndim(nodes[last'.src]))
          THEN /\ last'.status = "Ok"
               /\ Len(nodes') = Len(nodes) + 1
               /\ nodes'[Len(nodes')].kind = "View"
               /\ nodes'[Len(nodes')].source = nodes[last'.src]
          ELSE /\ last'.status = "Bounds"
               /\ nodes' = nodes
      ]_vars

\* an Op refused axes of the right length, all in range, with one repeated
C10_Witness ==
    /\ last.op = "transpose" /\ last.status = "Bounds"
    /\ last.axes # None
    /\ nodes[last.src].kind = "Op"
    /\ Len(last.axes[1]) = ndim(nodes[last.src])
    /\ ndim(nodes[last.src]) = 3
    /\ \A k \in 1..Len(last.axes[1]) : last.axes[1][k] < 3

====
